---- MODULE Spec2Model ----
(***************************************************************************)
(* A state-machine model of three parts of the Mol* plugin:                *)
(*   - the RCSBAssemblySymmetry behavior (register / update / unregister), *)
(*   - the InitAssemblySymmetry3D action and the AssemblySymmetry3D        *)
(*     transform (apply / update) over the custom-property provider and    *)
(*     the plugin state tree,                                              *)
(*   - SuperpositionControls (superposeChains / superposeAtoms /           *)
(*     transform) over the plugin state tree.                              *)
(* Each part has its own specification; the variables of the other parts   *)
(* stay at their initial values.                                           *)
(***************************************************************************)
EXTENDS Integers, Sequences, FiniteSets, TLC

VARIABLES
    \* ---- behavior (assembly-symmetry.ts:19-52)
    actions,        \* ctx.state.dataState.actions: set of state-action names
    propProviders,  \* ctx.customStructureProperties: registered provider names
    propAutoAttach, \* ctx.customStructureProperties: default auto-attach per name
    colorThemes,    \* themeCtx.colorThemeRegistry: set of theme-provider names
    autoAttach,     \* this.params.autoAttach of the handler
    preReg,         \* history: the registries as they were before the last register()
    calls,          \* history: the last two handler calls, oldest first
    events,         \* history: the registry operations of the last handler call
    updated,        \* history: the return value of the last update(p)
    arg             \* history: p.autoAttach of the last update(p)

behaviorVars == <<actions, propProviders, propAutoAttach, colorThemes, autoAttach,
                  preReg, calls, events, updated, arg>>

VARIABLES
    \* ---- superposition (superposition.tsx:81-313)
    uiAction,       \* this.state.action of SuperpositionControls
    sup,            \* the superposeChains / superposeAtoms invocations, by click slot
    supTree,        \* per structure cell: its transform nodes tagged SuperpositionTag
    treeLock        \* the click slot whose updateTree task runs against the tree, or None

supVars == <<uiAction, sup, supTree, treeLock>>

VARIABLES
    \* ---- assembly symmetry action and transform (assembly-symmetry.ts:54-124)
    provider,       \* AssemblySymmetryProvider: the property of each structure object
    structure,      \* a.data: the structure object the parent cell holds
    symTree,        \* refs of the AssemblySymmetry3D transform nodes in the state tree
    cell,           \* per ref: the state object of the node (b), or no object
    nodeParams,     \* per ref: the params (symmetryIndex) of the transform node
    reprs,          \* the AssemblySymmetryRepresentation objects created, by id
    task,           \* the running task: its position, arguments and results
    pre,            \* history: tree, objects and representations when the task began
    cancelled       \* runtime contexts whose cancellation was requested

symVars == <<provider, structure, symTree, cell, nodeParams, reprs, task, pre, cancelled>>

VARIABLES
    \* ---- direct volume (direct-volume.ts:89-237)
    gl,             \* the textures of the WebGL backend, by handle
    dvs,            \* the DirectVolume geometry objects, by id
    dvCall,         \* history: the last createDirectVolume call and what it did
    dvPre,          \* history: textures and geometries when that call began
    currentProps,   \* currentProps of one DirectVolumeRepresentation
    reprCall        \* history: the last createOrUpdate call and what it handed on

volVars == <<gl, dvs, dvCall, dvPre, currentProps, reprCall>>

VARIABLES
    \* ---- points geometry (points.ts:32-97)
    values,         \* PointsValues: the value held by each cell
    marked,         \* the cells marked changed by the last call
    ptCall,         \* history: the last call, its props and the values it began with
    creating        \* the createValues call that awaits its colors or sizes, if any

ptVars == <<values, marked, ptCall, creating>>

VARIABLES
    \* ---- viewer app (apps/viewer/index.ts:36-175)
    specConfig,     \* DefaultPluginSpec.config: the map shared by all constructions
    viewers,        \* the Viewer objects constructed, each with its plugin's config
    vwCall,         \* history: the last constructor call and its outcome
    vwRead          \* history: the last value read through a viewer's plugin.config

vwVars == <<specConfig, viewers, vwCall, vwRead>>

VARIABLES
    \* ---- CCP4 volume (mol-model/volume/formats/ccp4.ts:14-58)
    source,         \* the Ccp4File header and the params handed to volumeFromCcp4
    volumeData      \* the VolumeData the task produced: none yet, or one

ccp4Vars == <<source, volumeData>>

VARIABLES
    \* ---- model trajectory (Model namespace, points.ts:192-242)
    topology,       \* the inputs: models in the topology, their modelNum, frames
    models,         \* the Model objects, by object id
    infos,          \* the trajectoryInfo objects, by object id
    bags,           \* the property-data objects (_static / _dynamic), by object id
    trajectory      \* the Create Trajectory task: its position and its result

trajVars == <<topology, models, infos, bags, trajectory>>

VARIABLES
    \* ---- 2d volume texture (direct-volume.ts:35-87)
    texInput,       \* the inputs: the grid dimension and webgl.maxTextureSize
    texLayout,      \* what getVolumeTexture2dLayout returned: none yet, or one
    texImage        \* what createVolumeTexture2d wrote: none yet, or one

texVars == <<texInput, texLayout, texImage>>

VARIABLES
    \* ---- query properties (query/properties.ts)
    propCall        \* the last evaluation of a property at a location

propVars == <<propCall>>

VARIABLES
    \* ---- origin of a model (Model.isFromPdbArchive .. probablyHasDensityMap)
    originModel,    \* the model asked about: what of its source data is read
    origin          \* the answers of the predicates: none yet, or one record

originVars == <<originModel, origin>>

vars == <<behaviorVars, supVars, symVars, volVars, ptVars, vwVars, ccp4Vars, trajVars, texVars, propVars, originVars>>

\* What the steps of one part leave alone: the variables of the other parts.
notBehavior == <<supVars, symVars, volVars, ptVars, vwVars, ccp4Vars, trajVars, texVars, propVars, originVars>>
notSup == <<behaviorVars, symVars, volVars, ptVars, vwVars, ccp4Vars, trajVars, texVars, propVars, originVars>>
notSym == <<behaviorVars, supVars, volVars, ptVars, vwVars, ccp4Vars, trajVars, texVars, propVars, originVars>>
notVol == <<behaviorVars, supVars, symVars, ptVars, vwVars, ccp4Vars, trajVars, texVars, propVars, originVars>>
notPt == <<behaviorVars, supVars, symVars, volVars, vwVars, ccp4Vars, trajVars, texVars, propVars, originVars>>
notVw == <<behaviorVars, supVars, symVars, volVars, ptVars, ccp4Vars, trajVars, texVars, propVars, originVars>>
notCcp4 == <<behaviorVars, supVars, symVars, volVars, ptVars, vwVars, trajVars, texVars, propVars, originVars>>
notTraj == <<behaviorVars, supVars, symVars, volVars, ptVars, vwVars, ccp4Vars, texVars, propVars, originVars>>
notTex == <<behaviorVars, supVars, symVars, volVars, ptVars, vwVars, ccp4Vars, trajVars, propVars, originVars>>
notProp == <<behaviorVars, supVars, symVars, volVars, ptVars, vwVars, ccp4Vars, trajVars, texVars, originVars>>
notOrigin == <<behaviorVars, supVars, symVars, volVars, ptVars, vwVars, ccp4Vars, trajVars, texVars, propVars>>

-----------------------------------------------------------------------------
(* Names of what the behavior installs, and of what other behaviors may     *)
(* have installed in the same registries.                                   *)

InitAssemblySymmetry3D == "InitAssemblySymmetry3D"
AssemblySymmetryProviderName == "AssemblySymmetryProvider"
AssemblySymmetryClusterColorThemeProvider == "AssemblySymmetryClusterColorThemeProvider"

OtherActions == {"OtherAction"}
OtherProviders == {"OtherProvider"}
OtherThemes == {"OtherTheme"}

\* A value that is no registry content, no object and no result.
None == "none"

-----------------------------------------------------------------------------
(* The registries. Their code is not part of the sources; they are sets     *)
(* (maps keyed by name) with an idempotent add and a remove by name.        *)

\* actions.add / colorThemeRegistry.add
RegistryAdd(reg, x) == reg \cup {x}

\* actions.remove / colorThemeRegistry.remove
RegistryRemove(reg, x) == reg \ {x}

\* customStructureProperties.register(provider, defaultAutoAttach): the map of defaults
SetAutoAttach(m, name, v) ==
    [n \in DOMAIN m \cup {name} |-> IF n = name THEN v ELSE m[n]]

\* customStructureProperties.unregister(name): the map of defaults
DropAutoAttach(m, name) == [n \in DOMAIN m \ {name} |-> m[n]]

\* The three registries as one value, for comparing before and after.
Registries ==
    [actions |-> actions, providers |-> propProviders,
     autoAttach |-> propAutoAttach, themes |-> colorThemes]

Push2(s, x) == IF Len(s) < 2 THEN Append(s, x) ELSE <<s[2], x>>

-----------------------------------------------------------------------------
(* RCSBAssemblySymmetry handler.                                            *)

register ==
    /\ preReg' = Registries
    /\ actions' = RegistryAdd(actions, InitAssemblySymmetry3D)
    /\ propProviders' = RegistryAdd(propProviders, AssemblySymmetryProviderName)
    /\ propAutoAttach' = SetAutoAttach(propAutoAttach, AssemblySymmetryProviderName, autoAttach)
    /\ colorThemes' = RegistryAdd(colorThemes, AssemblySymmetryClusterColorThemeProvider)
    /\ events' = <<"add action", "add property", "add theme">>
    /\ calls' = Push2(calls, "register")
    /\ UNCHANGED <<autoAttach, updated, arg, notBehavior>>

unregister ==
    /\ actions' = RegistryRemove(actions, InitAssemblySymmetry3D)
    /\ propProviders' = RegistryRemove(propProviders, AssemblySymmetryProviderName)
    /\ propAutoAttach' = DropAutoAttach(propAutoAttach, AssemblySymmetryProviderName)
    /\ colorThemes' = RegistryRemove(colorThemes, AssemblySymmetryClusterColorThemeProvider)
    /\ events' = <<"remove action", "remove property", "remove theme">>
    /\ calls' = Push2(calls, "unregister")
    /\ UNCHANGED <<autoAttach, preReg, updated, arg, notBehavior>>

\* update(p) that reports a change on every call
updateAlwaysChanged(p) ==
    /\ updated' = TRUE
    /\ arg' = p
    /\ autoAttach' = p
    /\ propAutoAttach' = SetAutoAttach(propAutoAttach, AssemblySymmetryProviderName, p)
    /\ events' = <<"set default auto-attach">>
    /\ calls' = Push2(calls, "update")
    /\ UNCHANGED <<actions, propProviders, colorThemes, preReg, notBehavior>>

update(p) ==
    /\ updated' = (autoAttach # p)
    /\ arg' = p
    /\ autoAttach' = p
    /\ propAutoAttach' = SetAutoAttach(propAutoAttach, AssemblySymmetryProviderName, p)
    /\ events' = <<"set default auto-attach">>
    /\ calls' = Push2(calls, "update")
    /\ UNCHANGED <<actions, propProviders, colorThemes, preReg, notBehavior>>

BehaviorInit ==
    /\ actions \in SUBSET OtherActions
    /\ propProviders \in SUBSET OtherProviders
    /\ propAutoAttach \in [propProviders -> BOOLEAN]
    /\ colorThemes \in SUBSET OtherThemes
    /\ autoAttach \in BOOLEAN
    /\ preReg = None
    /\ calls = <<>>
    /\ events = <<>>
    /\ updated = None
    /\ arg = None

\* The behavior part at rest: nothing registered, no call made.
BehaviorAtRest ==
    /\ actions = {} /\ propProviders = {} /\ propAutoAttach = <<>>
    /\ colorThemes = {} /\ autoAttach = FALSE
    /\ preReg = None /\ calls = <<>> /\ events = <<>> /\ updated = None /\ arg = None

BehaviorNext ==
    \/ register
    \/ unregister
    \/ \E p \in BOOLEAN : update(p)

-----------------------------------------------------------------------------
(* SuperpositionControls.                                                   *)
(* A click on Superpose runs superposeChains / superposeAtoms up to its     *)
(* first await; every `await this.transform(...)` splits the handler into   *)
(* the steps below. The state tree's updateTree and the plugin's busy flag  *)
(* are not part of the sources: updateTree runs under the tree's update     *)
(* lock, and the plugin is busy while an update is issued and not finished. *)
(* A builder is made from the tree as it is at build() and holds that tree  *)
(* with its one edit; updateTree(b) makes the builder's tree the tree of    *)
(* the state (build, diff, commit).                                         *)

\* Most entries (selected chains or atom groups, one per structure) in one run.
MaxEntries == 3

SuperpositionTag == "SuperpositionTransform"

\* Click slots: two superpose invocations can be in progress at once.
Clicks == {"click1", "click2"}
Cells == 1..MaxEntries

\* entries[i].cell for the 0-based index i of the code: one structure cell per entry.
EntryCell(i) == i + 1

\* transforms[i - 1].bTransform of a run of `kind` over n entries: alignAndSuperpose
\* / superpose are not part of the sources; the matrix is a value that tells the
\* kind of run and the entry apart.
BTransform(kind, n, i) == <<kind, i>>

\* The tree without any superposition transform.
EmptyTree == [c \in Cells |-> <<>>]

\* A run of superposeChains / superposeAtoms: log holds the entries an info
\* line was written for.
IdleRun ==
    [pc |-> "idle", kind |-> None, n |-> 0, i |-> 0, b |-> None, tree |-> EmptyTree,
     log |-> <<>>]

\* The cells of the entries from..n-1 of a run over n entries.
EntryCells(from, n) == {EntryCell(i) : i \in from..(n - 1)}

\* StateObjectRef.resolveAndCheck(state, s): the cell when it is there with an
\* object and its status is ok, `undefined` (FALSE) otherwise; ok is the set of
\* the structure cells that are there and ok when the call is made.
ResolveAndCheck(ok, s) == s \in ok

\* transform returned at line 108: no builder, no updateTree task.
NoBuilder == [op |-> "none"]

\* StateSelection.findTagInSubtree(tree, r.transform.ref, SuperpositionTag): the
\* first tagged node below the structure, nodes listed from the structure down;
\* refs count from 1 and 0 stands for `undefined`.
FindTagInSubtree(nodes) ==
    IF \E j \in 1..Len(nodes) : nodes[j].tag = SuperpositionTag
    THEN nodes[CHOOSE j \in 1..Len(nodes) :
                  /\ nodes[j].tag = SuperpositionTag
                  /\ \A h \in 1..(j - 1) : nodes[h].tag # SuperpositionTag].ref
    ELSE 0

\* transform(s, matrix) that inserts whatever the subtree holds
TransformBuildInserts(r, nodes, s, matrix) ==
    IF ~r THEN NoBuilder
    ELSE [op |-> "insert", cell |-> s, ref |-> 0,
          params |-> [name |-> "matrix", data |-> matrix, transpose |-> FALSE]]

\* The synchronous part of transform(s, matrix), lines 107-120, r being what
\* resolveAndCheck gave for s: no builder when s does not resolve, else the
\* builder b.
TransformBuild(r, nodes, s, matrix) ==
    IF ~r THEN NoBuilder
    ELSE LET o == FindTagInSubtree(nodes)
             params == [name |-> "matrix", data |-> matrix, transpose |-> FALSE]
         IN IF o # 0
            THEN [op |-> "update", cell |-> s, ref |-> o, params |-> params]
            ELSE [op |-> "insert", cell |-> s, ref |-> 0, params |-> params]

\* build().to(o).update(params) / build().to(s).insert(..., { tags }): what the
\* builder makes of the nodes of its structure, update(params) on node b.ref or
\* a new tagged node right below the structure.
BuilderNodes(nodes, b) ==
    IF b.op = "update"
    THEN [j \in 1..Len(nodes) |->
            IF nodes[j].ref = b.ref THEN [nodes[j] EXCEPT !.params = b.params]
            ELSE nodes[j]]
    ELSE <<[ref |-> Len(nodes) + 1, tag |-> SuperpositionTag, params |-> b.params]>>
            \o nodes

\* The tree the builder b holds, made from the tree it was built on.
BuilderTree(tree, b) == [tree EXCEPT ![b.cell] = BuilderNodes(@, b)]

\* plugin.behaviors.state.isBusy: an update is issued and has not finished.
IsBusy == \E k \in Clicks : sup[k].pc \in {"queued", "running"}

\* An updateTree that takes no lock.
StartsUnlocked == TRUE

\* State.updateTree: a queued update starts only when no other update runs.
CanStartUpdate == treeLock = None

\* toggleByChains / toggleByAtoms / toggleOptions; the buttons are disabled
\* while this.state.isBusy.
toggle(a) ==
    /\ ~IsBusy
    /\ uiAction' = IF uiAction = a THEN None ELSE a
    /\ UNCHANGED <<sup, supTree, treeLock, notSup>>

\* One pass of the loop head of superposeChains / superposeAtoms for a run at
\* index i, up to the await of line 143 / 160, the cells in ok being those that
\* resolve: the loop ends, or transform(eB.cell, bTransform) issues its task
\* and the run waits for it (queued), or transform returns at line 108 for a
\* cell that does not resolve and the run waits for that return (skipped).
LoopStep(ok, run, i) ==
    IF i < run.n
    THEN LET b == TransformBuild(ResolveAndCheck(ok, EntryCell(i)),
                                 supTree[EntryCell(i)], EntryCell(i),
                                 BTransform(run.kind, run.n, i))
         IN  IF b.op = "none"
             THEN [run EXCEPT !.pc = "skipped", !.i = i, !.b = None,
                              !.tree = EmptyTree]
             ELSE [run EXCEPT !.pc = "queued", !.i = i, !.b = b,
                              !.tree = BuilderTree(supTree, b)]
    ELSE [run EXCEPT !.pc = "done", !.i = i, !.b = None, !.tree = EmptyTree]

\* onClick={this.superposeChains} / onClick={this.superposeAtoms}: the button is
\* rendered when the matching action is selected and there are 2 or more entries.
\* chainEntries keeps the selections whose cell resolves (lines 216-217), so the
\* first transform of a byChains run, made in the click itself, finds its cell;
\* atomEntries takes its cells from substructureParent (line 247). ok: whether
\* the cell of entry 1 resolves at the click; the handler runs up to its first
\* await.
superpose(k, kind, n, ok) ==
    /\ sup[k].pc = "idle"
    /\ uiAction = kind
    /\ n > 1
    /\ (kind = "byChains") => ResolveAndCheck(ok, EntryCell(1))
    /\ sup' = [sup EXCEPT ![k] =
                 LoopStep(ok, [IdleRun EXCEPT !.kind = kind, !.n = n], 1)]
    /\ UNCHANGED <<uiAction, supTree, treeLock, notSup>>

\* The updateTree task of run k starts to run against the tree.
updateTreeStart(k) ==
    /\ sup[k].pc = "queued"
    /\ CanStartUpdate
    /\ treeLock' = k
    /\ sup' = [sup EXCEPT ![k].pc = "running"]
    /\ UNCHANGED <<uiAction, supTree, notSup>>

\* The updateTree task of run k commits its builder and finishes; transform
\* returns and its builder b goes out of scope.
updateTreeEnd(k) ==
    /\ sup[k].pc = "running"
    /\ supTree' = sup[k].tree
    /\ treeLock' = IF treeLock = k THEN None ELSE treeLock
    /\ sup' = [sup EXCEPT ![k].pc = "resume", ![k].b = None, ![k].tree = EmptyTree]
    /\ UNCHANGED <<uiAction, notSup>>

\* After the await of line 143 / 160, whether transform issued a task or
\* returned at line 108: the info log line, ++i, and the next pass. ok: whether
\* the cell of the next entry resolves by then.
resume(k, ok) ==
    /\ sup[k].pc \in {"resume", "skipped"}
    /\ sup' = [sup EXCEPT ![k] =
                 LoopStep(ok, [sup[k] EXCEPT !.log = Append(@, sup[k].i)],
                          sup[k].i + 1)]
    /\ UNCHANGED <<uiAction, supTree, treeLock, notSup>>

\* The promise of a finished run settles; its slot takes the next click.
settle(k) ==
    /\ sup[k].pc = "done"
    /\ sup' = [sup EXCEPT ![k] = IdleRun]
    /\ UNCHANGED <<uiAction, supTree, treeLock, notSup>>

SupInit ==
    /\ uiAction = None
    /\ sup = [k \in Clicks |-> IdleRun]
    /\ supTree = [c \in Cells |-> <<>>]
    /\ treeLock = None

SupNext ==
    \/ \E a \in {"byChains", "byAtoms", "options"} : toggle(a)
    \/ \E k \in Clicks, kind \in {"byChains", "byAtoms"}, n \in 2..MaxEntries :
          \E ok \in SUBSET EntryCells(1, 2) : superpose(k, kind, n, ok)
    \/ \E k \in Clicks : updateTreeStart(k)
    \/ \E k \in Clicks : updateTreeEnd(k)
    \/ \E k \in Clicks :
          \E ok \in SUBSET EntryCells(sup[k].i + 1, sup[k].i + 2) : resume(k, ok)
    \/ \E k \in Clicks : settle(k)

-----------------------------------------------------------------------------
(* InitAssemblySymmetry3D and AssemblySymmetry3D.                           *)
(* One task runs at a time (the state tree serialises its updates). Every   *)
(* await of the code ends a step: the awaited work and the synchronous code *)
(* up to the next await form one action. The provider, the task runtime and *)
(* the state tree are not part of the sources and follow the spec (4.2,     *)
(* 4.3, 4.4, 7): attach computes once and caches, a step run in a cancelled *)
(* context throws instead of working, and an apply that throws commits      *)
(* nothing to the tree.                                                     *)

\* Longest assembly-symmetry list a computation yields.
MaxSymmetries == 2
\* AssemblySymmetry3D nodes the tree can hold.
MaxNodes == 1
\* Representations created over a run of the model.
MaxReprs == 2

\* The structure objects: the one the parent cell holds first, and the one it
\* holds after the parent was updated.
Structures == {1, 2}
Refs == 1..MaxNodes
\* params.symmetryIndex: the indices of the longest list, and one past it.
SymmetryIndices == 0..MaxSymmetries

\* What a computation of the provider can yield: a failure (the fetch or the
\* parse throws), an undefined value, or a list of 0..MaxSymmetries entries.
Outcomes ==
    {[ok |-> FALSE, defined |-> FALSE, len |-> 0],
     [ok |-> TRUE, defined |-> FALSE, len |-> 0]}
    \cup {[ok |-> TRUE, defined |-> TRUE, len |-> n] : n \in 0..MaxSymmetries}

\* No value: what get(a.data).value is before a successful attach.
NoValue == [defined |-> FALSE, gen |-> 0, len |-> 0]

Unattached == [st |-> "Unattached", value |-> NoValue, computes |-> 0]

\* The provider's computation (obtain), run on property state p with outcome o:
\* a success stores a new value object, numbered gen.
ProviderCompute(p, o) ==
    IF o.ok
    THEN [prov |-> [st |-> "Attached",
                    value |-> [defined |-> o.defined, gen |-> p.computes + 1,
                               len |-> o.len],
                    computes |-> p.computes + 1],
          threw |-> FALSE]
    ELSE [prov |-> [st |-> "Failed", value |-> NoValue, computes |-> p.computes + 1],
          threw |-> TRUE]

\* AssemblySymmetryProvider.attach: a no-op once attached, no retry once failed.
ProviderAttach(p, o) ==
    IF p.st = "Attached" THEN [prov |-> p, threw |-> FALSE]
    ELSE IF p.st = "Failed" THEN [prov |-> p, threw |-> TRUE]
    ELSE ProviderCompute(p, o)

\* AssemblySymmetryProvider.get(a.data).value
ProviderGet(p) == p.value

\* Entry i (0-based) of an assembly-symmetry list: its type, kind and symbol.
SymmetryEntry(i) ==
    [type |-> IF i = 0 THEN "Global" ELSE "Local",
     kind |-> IF i % 2 = 0 THEN "Cyclic" ELSE "Dihedral",
     symbol |-> (IF i % 2 = 0 THEN "C" ELSE "D") \o ToString(i + 2)]

\* `${type} (${symbol})`
Description(e) == e.type \o " (" \o e.symbol \o ")"

\* The runtime context a nested step is given at each call site.
\* A nested task started with run(): a context of its own.
SeparateCtx(ctx) == ctx + 1

\* line 63: attach({ runtime: ctx, ... })
InitAttachCtx(ctx) == ctx

\* line 69: state.updateTree(tree).runInContext(ctx)
InitUpdateTreeCtx(ctx) == ctx

\* line 95: attach({ runtime: ctx, ... })
ApplyAttachCtx(ctx) == ctx

\* line 101: repr.createOrUpdate(params, a.data).runInContext(ctx)
ApplyReprCtx(ctx) == ctx

\* line 108: attach({ runtime: ctx, ... })
UpdateAttachCtx(ctx) == ctx

\* line 114: b.data.repr.createOrUpdate(props, a.data).runInContext(ctx)
UpdateReprCtx(ctx) == ctx

\* The attach of each call site.
\* A call of the computation itself, past the provider's cache.
ObtainCall(p, o) == ProviderCompute(p, o)

\* line 63
InitAttachCall(p, o) == ProviderAttach(p, o)

\* line 95
ApplyAttachCall(p, o) == ProviderAttach(p, o)

\* line 108
UpdateAttachCall(p, o) == ProviderAttach(p, o)

\* A test that takes only an undefined value for empty.
IsUndefined(v) == ~v.defined

\* A test that also takes a list of one entry for empty.
IsAtMostOne(v) == ~v.defined \/ v.len <= 1

\* line 97: !assemblySymmetry || assemblySymmetry.length === 0
ApplyIsEmpty(v) == ~v.defined \/ v.len = 0

\* line 110: !assemblySymmetry || assemblySymmetry.length === 0
UpdateIsEmpty(v) == ~v.defined \/ v.len = 0

\* State objects. A cell holds no object, StateObject.Null, or a
\* Shape.Representation3D with data { repr, source } and label / description.
NoObject ==
    [kind |-> "none", id |-> 0, repr |-> 0, source |-> 0,
     label |-> "", description |-> ""]

NullObject == [NoObject EXCEPT !.kind = "Null"]

\* line 103: new Representation3D({ repr, source: a }, { label, description })
NewRepresentation3D(id, repr, a, e) ==
    [kind |-> "Representation3D", id |-> id, repr |-> repr, source |-> a,
     label |-> e.kind, description |-> Description(e)]

\* An update that also builds a new representation for b.
UpdateOutputRebuilds(b, e) ==
    [b EXCEPT !.repr = b.repr + 1, !.label = e.kind, !.description = Description(e)]

\* lines 116-117: b.label = kind; b.description = `${type} (${symbol})`
UpdateOutput(b, e) == [b EXCEPT !.label = e.kind, !.description = Description(e)]

IdleTask ==
    [pc |-> "idle", kind |-> "none", phase |-> "none", a |-> 0, ref |-> 0,
     params |-> 0, repr |-> 0, ctx |-> 0, runCtx |-> 0, attach |-> "none",
     result |-> "none", outcome |-> "none", logs |-> 0, nested |-> {}]

\* Task.create(...) run by the plugin: a task with a root context of its own.
RootCtx == 1

Snapshot == [symTree |-> symTree, cell |-> cell, reprs |-> reprs, nodeParams |-> nodeParams]

Nest(t, step, c) == [t EXCEPT !.nested = @ \cup {[step |-> step, ctx |-> c]}]

\* A throw that leaves the transform and, through updateTree, the enclosing task.
Throw(t) == [t EXCEPT !.pc = "done", !.result = "threw", !.outcome = "threw"]

\* The transform returns r and the enclosing task completes.
Return(t, r) == [t EXCEPT !.pc = "done", !.result = r, !.outcome = "returned"]

\* A catch block that logs and goes on to build the tree.
InitCatchFallsThrough(t) == [t EXCEPT !.logs = @ + 1, !.pc = "init_tree"]

\* lines 64-67: catch (e) { plugin.log.error(...); return }
InitCatch(t) == [t EXCEPT !.logs = @ + 1, !.pc = "done", !.outcome = "returned"]

\* state.build().to(ref).apply(...): the ref of the node to add.
NewRef == CHOOSE r \in Refs : r \notin symTree /\ \A q \in Refs : q < r => q \in symTree

\* The InitAssemblySymmetry3D action is run on the structure cell (line 61).
StartInit ==
    /\ task.pc = "idle"
    /\ Len(reprs) < MaxReprs
    /\ Refs \ symTree # {}
    /\ task' = [IdleTask EXCEPT !.pc = "init_attach", !.kind = "init",
                                !.phase = "init", !.a = structure, !.ctx = RootCtx]
    /\ pre' = Snapshot
    /\ cancelled' = {}
    /\ UNCHANGED <<provider, structure, symTree, cell, nodeParams, reprs, notSym>>

\* lines 62-67: the attach of the action, and its catch.
InitAttach ==
    /\ task.pc = "init_attach"
    /\ \E o \in Outcomes :
        LET c == InitAttachCtx(task.ctx)
            r == InitAttachCall(provider[task.a], o)
            t == Nest(task, "attach", c)
        IN IF c \in cancelled
           THEN /\ task' = InitCatch([t EXCEPT !.attach = "aborted"])
                /\ UNCHANGED provider
           ELSE /\ provider' = [provider EXCEPT ![task.a] = r.prov]
                /\ task' = IF r.threw
                           THEN InitCatch([t EXCEPT !.attach = "failed"])
                           ELSE [t EXCEPT !.attach = "ok", !.pc = "init_tree"]
    /\ UNCHANGED <<structure, symTree, cell, nodeParams, reprs, pre, cancelled, notSym>>

\* lines 68-69: the tree with the new AssemblySymmetry3D node, and its update,
\* which runs the transform's apply in the context it was given.
InitUpdateTree ==
    /\ task.pc = "init_tree"
    /\ LET c == InitUpdateTreeCtx(task.ctx)
           t == Nest(task, "updateTree", c)
       IN task' = IF c \in cancelled
                  THEN [t EXCEPT !.pc = "done", !.outcome = "threw"]
                  ELSE [t EXCEPT !.pc = "apply_attach", !.phase = "apply",
                                 !.runCtx = c, !.ref = NewRef, !.params = 0,
                                 !.attach = "none"]
    /\ UNCHANGED <<provider, structure, symTree, cell, nodeParams, reprs, pre,
                   cancelled, notSym>>

\* A tree update applies AssemblySymmetry3D with params p below the structure
\* (the exported transform, used without the action).
StartApply(p) ==
    /\ task.pc = "idle"
    /\ Len(reprs) < MaxReprs
    /\ Refs \ symTree # {}
    /\ task' = [IdleTask EXCEPT !.pc = "apply_attach", !.kind = "apply",
                                !.phase = "apply", !.a = structure, !.ctx = RootCtx,
                                !.runCtx = RootCtx, !.ref = NewRef, !.params = p]
    /\ pre' = Snapshot
    /\ cancelled' = {}
    /\ UNCHANGED <<provider, structure, symTree, cell, nodeParams, reprs, notSym>>

\* A tree update applies the transform again on a node that holds StateObject.Null.
StartReapply(ref, p) ==
    /\ task.pc = "idle"
    /\ Len(reprs) < MaxReprs
    /\ ref \in symTree
    /\ cell[ref].kind = "Null"
    /\ task' = [IdleTask EXCEPT !.pc = "apply_attach", !.kind = "apply",
                                !.phase = "apply", !.a = structure, !.ctx = RootCtx,
                                !.runCtx = RootCtx, !.ref = ref, !.params = p]
    /\ pre' = Snapshot
    /\ cancelled' = {}
    /\ UNCHANGED <<provider, structure, symTree, cell, nodeParams, reprs, notSym>>

\* The node of the task and its object enter the tree.
Commit(obj) ==
    /\ symTree' = symTree \cup {task.ref}
    /\ cell' = [cell EXCEPT ![task.ref] = obj]
    /\ nodeParams' = [nodeParams EXCEPT ![task.ref] = task.params]

\* lines 95-101: attach, the test for an empty property, the new representation.
ApplyAttach ==
    /\ task.pc = "apply_attach"
    /\ \E o \in Outcomes :
        LET c == ApplyAttachCtx(task.runCtx)
            r == ApplyAttachCall(provider[task.a], o)
            t == Nest(task, "attach", c)
        IN IF c \in cancelled
           THEN /\ task' = Throw([t EXCEPT !.attach = "aborted"])
                /\ UNCHANGED <<provider, symTree, cell, nodeParams, reprs>>
           ELSE /\ provider' = [provider EXCEPT ![task.a] = r.prov]
                /\ IF r.threw
                   THEN /\ task' = Throw([t EXCEPT !.attach = "failed"])
                        /\ UNCHANGED <<symTree, cell, nodeParams, reprs>>
                   ELSE IF ApplyIsEmpty(ProviderGet(r.prov))
                   THEN /\ task' = Return([t EXCEPT !.attach = "ok"], "Null")
                        /\ Commit(NullObject)
                        /\ UNCHANGED reprs
                   ELSE /\ task' = [t EXCEPT !.attach = "ok", !.pc = "apply_repr",
                                             !.repr = Len(reprs) + 1]
                        /\ reprs' = Append(reprs, [built |-> FALSE, symmetryIndex |-> 0])
                        /\ UNCHANGED <<symTree, cell, nodeParams>>
    /\ UNCHANGED <<structure, pre, cancelled, notSym>>

\* lines 101-103: createOrUpdate, the selected entry, the new state object.
ApplyRepr ==
    /\ task.pc = "apply_repr"
    /\ LET c == ApplyReprCtx(task.runCtx)
           v == ProviderGet(provider[task.a])
           t == Nest(task, "createOrUpdate", c)
       IN IF c \in cancelled
          THEN /\ task' = Throw(t)
               /\ UNCHANGED <<symTree, cell, nodeParams, reprs>>
          ELSE /\ reprs' = [reprs EXCEPT ![task.repr] =
                              [built |-> TRUE, symmetryIndex |-> task.params]]
               /\ IF task.params < v.len
                  THEN /\ task' = Return(t, "created")
                       /\ Commit(NewRepresentation3D(task.repr, task.repr, task.a,
                                                     SymmetryEntry(task.params)))
                  ELSE /\ task' = Throw(t)
                       /\ UNCHANGED <<symTree, cell, nodeParams>>
    /\ UNCHANGED <<provider, structure, pre, cancelled, notSym>>

\* A tree update runs the transform's update on node ref with new params p.
StartUpdate(ref, p) ==
    /\ task.pc = "idle"
    /\ Len(reprs) < MaxReprs
    /\ ref \in symTree
    /\ cell[ref].kind = "Representation3D"
    /\ task' = [IdleTask EXCEPT !.pc = "update_attach", !.kind = "update",
                                !.phase = "update", !.a = structure, !.ctx = RootCtx,
                                !.runCtx = RootCtx, !.ref = ref, !.params = p,
                                !.repr = cell[ref].repr]
    /\ pre' = Snapshot
    /\ cancelled' = {}
    /\ UNCHANGED <<provider, structure, symTree, cell, nodeParams, reprs, notSym>>

\* lines 108-114: attach, the test for an empty property, the merged props.
UpdateAttach ==
    /\ task.pc = "update_attach"
    /\ \E o \in Outcomes :
        LET c == UpdateAttachCtx(task.runCtx)
            r == UpdateAttachCall(provider[task.a], o)
            t == Nest(task, "attach", c)
        IN IF c \in cancelled
           THEN /\ task' = Throw([t EXCEPT !.attach = "aborted"])
                /\ UNCHANGED provider
           ELSE /\ provider' = [provider EXCEPT ![task.a] = r.prov]
                /\ task' = IF r.threw
                           THEN Throw([t EXCEPT !.attach = "failed"])
                           ELSE IF UpdateIsEmpty(ProviderGet(r.prov))
                           THEN Return([t EXCEPT !.attach = "ok"], "Recreate")
                           ELSE [t EXCEPT !.attach = "ok", !.pc = "update_repr"]
    /\ UNCHANGED <<structure, symTree, cell, nodeParams, reprs, pre, cancelled, notSym>>

\* lines 114-118: createOrUpdate on b's representation, the selected entry,
\* b's label and description.
UpdateRepr ==
    /\ task.pc = "update_repr"
    /\ LET c == UpdateReprCtx(task.runCtx)
           v == ProviderGet(provider[task.a])
           t == Nest(task, "createOrUpdate", c)
       IN IF c \in cancelled
          THEN /\ task' = Throw(t)
               /\ UNCHANGED <<cell, nodeParams, reprs>>
          ELSE /\ reprs' = [reprs EXCEPT ![task.repr] =
                              [built |-> TRUE, symmetryIndex |-> task.params]]
               /\ IF task.params < v.len
                  THEN /\ task' = Return(t, "Updated")
                       /\ cell' = [cell EXCEPT ![task.ref] =
                                     UpdateOutput(@, SymmetryEntry(task.params))]
                       /\ nodeParams' = [nodeParams EXCEPT ![task.ref] = task.params]
                  ELSE /\ task' = Throw(t)
                       /\ UNCHANGED <<cell, nodeParams>>
    /\ UNCHANGED <<provider, structure, symTree, pre, cancelled, notSym>>

\* update returned Recreate: the tree update discards b and applies again.
Recreate ==
    /\ task.pc = "done"
    /\ task.result = "Recreate"
    /\ task' = [IdleTask EXCEPT !.pc = "apply_attach", !.kind = "apply",
                                !.phase = "apply", !.a = task.a, !.ctx = task.ctx,
                                !.runCtx = task.runCtx, !.ref = task.ref,
                                !.params = task.params]
    /\ pre' = Snapshot
    /\ UNCHANGED <<provider, structure, symTree, cell, nodeParams, reprs, cancelled,
                   notSym>>

\* The task has settled and the plugin is idle again.
Finish ==
    /\ task.pc = "done"
    /\ task.result # "Recreate"
    /\ task' = IdleTask
    /\ UNCHANGED <<provider, structure, symTree, cell, nodeParams, reprs, pre,
                   cancelled, notSym>>

\* The user cancels the running task: its root context is cancelled.
Cancel ==
    /\ task.pc \notin {"idle", "done"}
    /\ task.ctx \notin cancelled
    /\ cancelled' = cancelled \cup {task.ctx}
    /\ UNCHANGED <<provider, structure, symTree, cell, nodeParams, reprs, task, pre,
                   notSym>>

\* The parent cell is updated and holds a new structure object.
ReplaceStructure ==
    /\ task.pc = "idle"
    /\ structure + 1 \in Structures
    /\ structure' = structure + 1
    /\ UNCHANGED <<provider, symTree, cell, nodeParams, reprs, task, pre, cancelled,
                   notSym>>

SymInit ==
    /\ provider = [s \in Structures |-> Unattached]
    /\ structure = 1
    /\ symTree = {}
    /\ cell = [r \in Refs |-> NoObject]
    /\ nodeParams = [r \in Refs |-> 0]
    /\ reprs = <<>>
    /\ task = IdleTask
    /\ pre = [symTree |-> {}, cell |-> [r \in Refs |-> NoObject], reprs |-> <<>>,
              nodeParams |-> [r \in Refs |-> 0]]
    /\ cancelled = {}

SymNext ==
    \/ StartInit
    \/ InitAttach
    \/ InitUpdateTree
    \/ \E p \in SymmetryIndices : StartApply(p)
    \/ \E r \in Refs, p \in SymmetryIndices : StartReapply(r, p)
    \/ ApplyAttach
    \/ ApplyRepr
    \/ \E r \in Refs, p \in SymmetryIndices : StartUpdate(r, p)
    \/ UpdateAttach
    \/ UpdateRepr
    \/ Recreate
    \/ Finish
    \/ Cancel
    \/ ReplaceStructure

-----------------------------------------------------------------------------
(* Direct volume: createDirectVolume and DirectVolumeRepresentation.        *)
(* The WebGL backend (createTexture, texture.load) and DirectVolume.create  *)
(* are not part of the sources: a texture is a handle with a kind and the   *)
(* image last loaded into it; DirectVolume.create fills the geometry passed *)
(* in, or a new one when none is passed.                                    *)

\* Most textures the backend holds.
MaxTextures == 2

\* ctx.webgl: absent, a WebGL1 context or a WebGL2 context
WebGLs == {"undefined", "webgl1", "webgl2"}

\* The volumes handed to createDirectVolume.
Volumes == {1, 2}

\* No directVolume argument.
NoDirectVolume == 0

NoImage == [layout |-> "none", volume |-> 0]

\* createTexture(webgl, kind, 'rgba', 'ubyte', 'linear'): a new handle
CreateTexture(g, kind) == Append(g, [kind |-> kind, image |-> NoImage])

\* texture.load(image)
TextureLoad(g, t, image) == [g EXCEPT ![t].image = image]

\* DirectVolume.create(bbox, dim, transform, texture, directVolume)
DirectVolumeCreate(d, texture, volume, directVolume) ==
    IF directVolume # NoDirectVolume
    THEN [d EXCEPT ![directVolume] = [texture |-> texture, volume |-> volume]]
    ELSE Append(d, [texture |-> texture, volume |-> volume])

\* A texture is created on every call
AlwaysCreates(directVolume) == FALSE

\* directVolume ? directVolume.gridTexture.ref.value : createTexture(...)
ReuseTexture(directVolume) == directVolume # NoDirectVolume

\* What a call of createDirectVolume2d / createDirectVolume3d does: the
\* textures and geometries after it, its backend calls in order, its result.
CreateWith(g, d, volume, directVolume, kind, layout) ==
    LET reuse == ReuseTexture(directVolume)
        g1 == IF reuse THEN g ELSE CreateTexture(g, kind)
        texture == IF reuse THEN d[directVolume].texture ELSE Len(g1)
    IN  [gl |-> TextureLoad(g1, texture, [layout |-> layout, volume |-> volume]),
         dvs |-> DirectVolumeCreate(d, texture, volume, directVolume),
         ops |-> (IF reuse THEN <<>> ELSE << <<"createTexture", kind>> >>)
                 \o << <<"load", layout>> >>,
         out |-> IF directVolume # NoDirectVolume THEN directVolume ELSE Len(d) + 1]

createDirectVolume2d(g, d, volume, directVolume) ==
    CreateWith(g, d, volume, directVolume, "image-uint8", "2d")

createDirectVolume3d(g, d, volume, directVolume) ==
    CreateWith(g, d, volume, directVolume, "volume-uint8", "3d")

\* The check of webgl is skipped
WebglPresent(webgl) == FALSE

\* webgl === undefined
WebglMissing(webgl) == webgl = "undefined"

\* webgl.isWebGL2
IsWebGL2(webgl) == webgl = "webgl2"

NoDvCall ==
    [webgl |-> "undefined", volume |-> 0, directVolume |-> NoDirectVolume,
     result |-> "none", ops |-> <<>>, out |-> 0]

createDirectVolume(webgl, volume, directVolume) ==
    /\ directVolume # NoDirectVolume \/ Len(gl) < MaxTextures
    /\ dvPre' = [gl |-> gl, dvs |-> dvs]
    /\ IF WebglMissing(webgl)
       THEN /\ dvCall' = [webgl |-> webgl, volume |-> volume,
                          directVolume |-> directVolume,
                          result |-> "threw", ops |-> <<>>, out |-> 0]
            /\ UNCHANGED <<gl, dvs>>
       ELSE LET r == IF IsWebGL2(webgl)
                     THEN createDirectVolume3d(gl, dvs, volume, directVolume)
                     ELSE createDirectVolume2d(gl, dvs, volume, directVolume)
            IN  /\ gl' = r.gl
                /\ dvs' = r.dvs
                /\ dvCall' = [webgl |-> webgl, volume |-> volume,
                              directVolume |-> directVolume,
                              result |-> "ok", ops |-> r.ops, out |-> r.out]
    /\ UNCHANGED <<currentProps, reprCall, notVol>>

\* The params of DirectVolumeParams the model follows, and their values.
ParamNames == {"alpha", "renderMode"}
ParamValues == {0, 1}

\* paramDefaultValues(DirectVolumeParams)
DefaultDirectVolumeProps == [n \in ParamNames |-> IF n = "alpha" THEN 1 ELSE 0]

\* Partial<DirectVolumeProps>
PartialProps == UNION {[D -> ParamValues] : D \in SUBSET ParamNames}

\* Object.assign(a, b) for two sources: the keys of b win
ObjectAssign(a, b) ==
    [n \in DOMAIN a \cup DOMAIN b |-> IF n \in DOMAIN b THEN b[n] ELSE a[n]]

\* `let currentProps`: undefined, which Object.assign skips
NoProps == [n \in {} |-> 0]

NoReprCall == [called |-> FALSE, props |-> NoProps, handed |-> NoProps]

\* createOrUpdate(ctx, props, volume); ctx and volume are passed on as they are.
createOrUpdate(props) ==
    LET next == ObjectAssign(ObjectAssign(ObjectAssign(NoProps,
                    DefaultDirectVolumeProps), currentProps), props)
    IN  /\ currentProps' = next
        /\ reprCall' = [called |-> TRUE, props |-> props, handed |-> next]
        /\ UNCHANGED <<gl, dvs, dvCall, dvPre, notVol>>

VolInit ==
    /\ gl = <<>>
    /\ dvs = <<>>
    /\ dvCall = NoDvCall
    /\ dvPre = [gl |-> <<>>, dvs |-> <<>>]
    /\ currentProps = NoProps
    /\ reprCall = NoReprCall

VolNext ==
    \/ \E w \in WebGLs, v \in Volumes, d \in {NoDirectVolume} \cup DOMAIN dvs :
          createDirectVolume(w, v, d)
    \/ \E p \in PartialProps : createOrUpdate(p)

-----------------------------------------------------------------------------
(* Points geometry: createEmpty, transformImmediate, createValues and       *)
(* updateValues.                                                            *)
(* ValueCell and Geometry.updateValues are not part of the sources: a cell  *)
(* holds one value, update replaces it and marks the cell changed,          *)
(* updateIfChanged does so only when the new value differs;                 *)
(* Geometry.updateValues does updateIfChanged on the cells of               *)
(* Geometry.Params, of which the model follows uAlpha.                      *)

\* The Points objects (their centerBuffer and groupBuffer cells).
PointsObjects == {1, 2}

\* pointEdgeBleach in steps of 0.05: NumberParam('Point Edge Bleach', '', 0.2, 0, 1, 0.05)
BleachValues == {4, 20}
AlphaValues == {0, 1}

\* Props of Points.Params the model follows
PointsProps ==
    [alpha : AlphaValues, pointSizeAttenuation : BOOLEAN,
     pointFilledCircle : BOOLEAN, pointEdgeBleach : BleachValues]

\* paramDefaultValues(Params)
PointsDefaultProps ==
    [alpha |-> 1, pointSizeAttenuation |-> FALSE,
     pointFilledCircle |-> FALSE, pointEdgeBleach |-> 4]

CellNames ==
    {"aPosition", "aGroup", "uAlpha",
     "dPointSizeAttenuation", "dPointFilledCircle", "uPointEdgeBleach"}

\* ValueCell.update(cell, v)
ValueCellUpdate(held, v) == [value |-> v, changed |-> TRUE]

\* ValueCell.updateIfChanged(cell, v)
ValueCellUpdateIfChanged(held, v) == [value |-> v, changed |-> held # v]

\* Geometry.updateValues(values, props)
GeometryUpdateValues(vals, props) == ValueCellUpdateIfChanged(vals.uAlpha, props.alpha)

\* The three calls of updateValues on the cells of the points
UpdatePointSizeAttenuation(held, v) == ValueCellUpdateIfChanged(held, v)

UpdatePointFilledCircle(held, v) == ValueCellUpdateIfChanged(held, v)

\* The bleach cell is updated whatever it holds
UpdatePointEdgeBleachAlways(held, v) == ValueCellUpdate(held, v)

UpdatePointEdgeBleach(held, v) == ValueCellUpdateIfChanged(held, v)

\* createValues(ctx, points, transform, locationIt, props): fresh cells for the
\* props, the buffers of the points as aPosition and aGroup
PointsCreateValues(points, props) ==
    [aPosition |-> points, aGroup |-> points, uAlpha |-> props.alpha,
     dPointSizeAttenuation |-> props.pointSizeAttenuation,
     dPointFilledCircle |-> props.pointFilledCircle,
     uPointEdgeBleach |-> props.pointEdgeBleach]

\* No createValues call is waiting.
NoCreate == [at |-> "none", points |-> 1, props |-> PointsDefaultProps]

\* The cells of the values that are the buffers of the Points object `points`
\* and that ValueCell.update marks when called on the named buffers.
MarkBuffers(vals, points, buffers) ==
    {n \in buffers : vals[n] = points}

\* createEmpty(points), lines 33-42: ValueCell.update on the center and the
\* group buffer of the points given; the object returned shares both cells.
createEmpty(points) ==
    /\ marked' = MarkBuffers(values, points, {"aPosition", "aGroup"})
    /\ ptCall' = [op |-> "createEmpty", props |-> PointsDefaultProps, pre |-> values]
    /\ UNCHANGED <<values, creating, notPt>>

\* transformRangeImmediate(points, t, offset, count), lines 49-53: the
\* positions are transformed in place and the center buffer is updated.
TransformRangeImmediate(vals, points) == MarkBuffers(vals, points, {"aPosition"})

transformRangeImmediate(points) ==
    /\ marked' = TransformRangeImmediate(values, points)
    /\ ptCall' = [op |-> "transformRangeImmediate", props |-> PointsDefaultProps,
                  pre |-> values]
    /\ UNCHANGED <<values, creating, notPt>>

\* transformImmediate(points, t), lines 45-47
transformImmediate(points) ==
    /\ marked' = TransformRangeImmediate(values, points)
    /\ ptCall' = [op |-> "transformImmediate", props |-> PointsDefaultProps,
                  pre |-> values]
    /\ UNCHANGED <<values, creating, notPt>>

\* createValues(ctx, points, transform, locationIt, props), lines 68-70: up to
\* await createColors(...)
createValues(points, props) ==
    /\ creating.at = "none"
    /\ creating' = [at |-> "createColors", points |-> points, props |-> props]
    /\ UNCHANGED <<values, marked, ptCall, notPt>>

\* line 71: the colors are there, up to await createSizes(...)
createValuesSizes ==
    /\ creating.at = "createColors"
    /\ creating' = [creating EXCEPT !.at = "createSizes"]
    /\ UNCHANGED <<values, marked, ptCall, notPt>>

\* lines 72-89: the sizes are there; the values are made and returned
createValuesReturn ==
    /\ creating.at = "createSizes"
    /\ ptCall' = [op |-> "createValues", props |-> creating.props,
                  pre |-> PointsCreateValues(creating.points, creating.props)]
    /\ values' = PointsCreateValues(creating.points, creating.props)
    /\ marked' = {}
    /\ creating' = NoCreate
    /\ UNCHANGED notPt

updateValues(props) ==
    LET g == GeometryUpdateValues(values, props)
        a == UpdatePointSizeAttenuation(values.dPointSizeAttenuation,
                                        props.pointSizeAttenuation)
        f == UpdatePointFilledCircle(values.dPointFilledCircle, props.pointFilledCircle)
        b == UpdatePointEdgeBleach(values.uPointEdgeBleach, props.pointEdgeBleach)
    IN  /\ ptCall' = [op |-> "updateValues", props |-> props, pre |-> values]
        /\ values' = [values EXCEPT !.uAlpha = g.value,
                                    !.dPointSizeAttenuation = a.value,
                                    !.dPointFilledCircle = f.value,
                                    !.uPointEdgeBleach = b.value]
        /\ marked' = {n \in CellNames :
                        \/ n = "uAlpha" /\ g.changed
                        \/ n = "dPointSizeAttenuation" /\ a.changed
                        \/ n = "dPointFilledCircle" /\ f.changed
                        \/ n = "uPointEdgeBleach" /\ b.changed}
        /\ UNCHANGED <<creating, notPt>>

\* The values of one Points object created with the default props.
PtInit ==
    /\ values = PointsCreateValues(1, PointsDefaultProps)
    /\ marked = {}
    /\ ptCall = [op |-> "none", props |-> PointsDefaultProps,
                 pre |-> PointsCreateValues(1, PointsDefaultProps)]
    /\ creating = NoCreate

PtNext ==
    \/ \E o \in PointsObjects : createEmpty(o)
    \/ \E o \in PointsObjects : transformImmediate(o)
    \/ \E o \in PointsObjects : transformRangeImmediate(o)
    \/ \E o \in PointsObjects, p \in PointsProps : createValues(o, p)
    \/ createValuesSizes
    \/ createValuesReturn
    \/ \E p \in PointsProps : updateValues(p)

-----------------------------------------------------------------------------
(* Viewer app: the constructor and the reads of the plugin's config.        *)
(* createPlugin and the plugin context are not part of the sources: the     *)
(* plugin context is an object of its own per plugin, and its config is     *)
(* filled from spec.config when the plugin is created.                      *)

\* Most viewers constructed.
MaxViewers == 2

\* The options the model follows, with the values a caller may pass.
ServerValues == {"https://server-a", "https://server-b"}
ProviderValues == {"pdbe", "rcsb"}

OptionValues(n) == IF n = "pluginStateServer" THEN ServerValues ELSE ProviderValues

OptionNames == {"pluginStateServer", "pdbProvider"}

\* DefaultViewerOptions: the default values of the PluginConfig items
DefaultViewerOptions ==
    [pluginStateServer |-> "https://default-server", pdbProvider |-> "pdbe"]

\* Partial<ViewerOptions>
PartialViewerOptions ==
    UNION {{f \in [D -> ServerValues \cup ProviderValues] :
               \A n \in D : f[n] \in OptionValues(n)} : D \in SUBSET OptionNames}

\* The ids of the DOM elements of the page, and an id no element has.
ElementIds == {"app", "missing"}
DocumentGetElementById(elementId) == IF elementId = "app" THEN "app" ELSE None

\* spec.config?.set(...) for the items the model follows
SetConfig(config, o) ==
    [config EXCEPT !.StateDefaultServer = o.pluginStateServer,
                   !.StateCurrentServer = o.pluginStateServer,
                   !.DownloadDefaultPdbProvider = o.pdbProvider]

\* createPlugin(element, spec): the config of the new plugin context.
\* createPlugin and PluginContext are not part of the sources, and nothing
\* says whether the context keeps the map it is handed (spec.config, which is
\* DefaultPluginSpec.config) or fills a map of its own from it: shared tells
\* which, and both are possible.
ContextConfig(shared, config) == [shared |-> shared, own |-> config]

\* plugin.config.get(item)
ConfigGet(pluginConfig, item) ==
    IF pluginConfig.shared THEN specConfig[item] ELSE pluginConfig.own[item]

NoVwCall == [elementId |-> None, o |-> DefaultViewerOptions, result |-> "none",
             pre |-> [StateDefaultServer |-> None, StateCurrentServer |-> None,
                      DownloadDefaultPdbProvider |-> None]]

Viewer(elementId, options, shared) ==
    LET o == ObjectAssign(DefaultViewerOptions, options)
        config == SetConfig(specConfig, o)
        element == DocumentGetElementById(elementId)
    IN  /\ Len(viewers) < MaxViewers
        /\ specConfig' = config
        /\ IF element = None
           THEN /\ vwCall' = [elementId |-> elementId, o |-> o, result |-> "threw",
                              pre |-> specConfig]
                /\ UNCHANGED viewers
           ELSE /\ vwCall' = [elementId |-> elementId, o |-> o, result |-> "ok",
                              pre |-> specConfig]
                /\ viewers' = Append(viewers, [o |-> o, config |-> ContextConfig(shared, config)])
        /\ UNCHANGED <<vwRead, notVw>>

\* setRemoteSnapshot(id): the url is built from State.CurrentServer
setRemoteSnapshot(k) ==
    /\ vwRead' = [viewer |-> k, item |-> "StateCurrentServer",
                  value |-> ConfigGet(viewers[k].config, "StateCurrentServer")]
    /\ UNCHANGED <<specConfig, viewers, vwCall, notVw>>

\* loadPdb(pdb): the server is Download.DefaultPdbProvider
loadPdb(k) ==
    /\ vwRead' = [viewer |-> k, item |-> "DownloadDefaultPdbProvider",
                  value |-> ConfigGet(viewers[k].config, "DownloadDefaultPdbProvider")]
    /\ UNCHANGED <<specConfig, viewers, vwCall, notVw>>

VwInit ==
    /\ specConfig = [StateDefaultServer |-> DefaultViewerOptions.pluginStateServer,
                     StateCurrentServer |-> DefaultViewerOptions.pluginStateServer,
                     DownloadDefaultPdbProvider |-> DefaultViewerOptions.pdbProvider]
    /\ viewers = <<>>
    /\ vwCall = NoVwCall
    /\ vwRead = [viewer |-> 0, item |-> None, value |-> None]

VwNext ==
    \/ \E e \in ElementIds, o \in PartialViewerOptions, shared \in BOOLEAN :
          Viewer(e, o, shared)
    \/ \E k \in DOMAIN viewers : setRemoteSnapshot(k)
    \/ \E k \in DOMAIN viewers : loadPdb(k)

-----------------------------------------------------------------------------
(* volumeFromCcp4.                                                          *)
(* Numbers that need not be whole (radians, fractional coordinates) are     *)
(* kept exact: an angle as a fraction of pi, a quotient as a reduced        *)
(* fraction, or NaN / Infinity where JavaScript's division gives them.      *)
(* Vec3, Tensor and SpacegroupCell are not part of the sources.             *)

RECURSIVE Gcd(_, _)
Gcd(a, b) == IF b = 0 THEN a ELSE Gcd(b, a % b)

Abs(a) == IF a < 0 THEN 0 - a ELSE a

\* a / b of JavaScript numbers, for whole a and b >= 0
Quotient(a, b) ==
    IF b = 0
    THEN IF a = 0 THEN [kind |-> "NaN", num |-> 0, den |-> 0]
         ELSE [kind |-> IF a > 0 THEN "Infinity" ELSE "-Infinity", num |-> 0, den |-> 0]
    ELSE LET g == Gcd(Abs(a), b)
         IN  [kind |-> "number", num |-> a \div g, den |-> b \div g]

\* degToRad(deg) = deg * pi / 180, as a fraction of pi
DegToRad(deg) == Quotient(deg, 180)

\* The header fields, drawn as the groups the file stores them in.
Modes == {0, 1, 2}
Lengths == {<<10, 10, 10>>, <<10, 20, 30>>}
Angles == {<<90, 90, 90>>, <<90, 120, 60>>}
Spacegroups == {0, 1, 19}
AxisOrders == {<<1, 2, 3>>, <<1, 3, 2>>, <<2, 1, 3>>, <<2, 3, 1>>, <<3, 1, 2>>, <<3, 2, 1>>}
Grids == {<<4, 4, 4>>, <<2, 4, 8>>, <<0, 4, 4>>}
Extents == {<<1, 2, 3>>}
Origins == {<<0, 0, 0>>, <<0, 0, 2>>, <<1, 2, 3>>}
Starts == {<<0, 0, 0>>, <<-1, 2, 4>>}
VoxelSizes == {<<1, 1, 1>>, <<2, 2, 2>>}

Ccp4Header(mode, len, ang, ispg, map, grid, ext, org, start) ==
    [MODE |-> mode, xLength |-> len[1], yLength |-> len[2], zLength |-> len[3],
     alpha |-> ang[1], beta |-> ang[2], gamma |-> ang[3], ISPG |-> ispg,
     MAPC |-> map[1], MAPR |-> map[2], MAPS |-> map[3],
     NX |-> grid[1], NY |-> grid[2], NZ |-> grid[3],
     NC |-> ext[1], NR |-> ext[2], NS |-> ext[3],
     originX |-> org[1], originY |-> org[2], originZ |-> org[3],
     NCSTART |-> start[1], NRSTART |-> start[2], NSSTART |-> start[3]]

Ccp4Headers ==
    {Ccp4Header(mode, len, ang, ispg, map, grid, ext, org, start) :
        mode \in Modes, len \in Lengths, ang \in Angles, ispg \in Spacegroups,
        map \in AxisOrders, grid \in Grids, ext \in Extents, org \in Origins,
        start \in Starts}

\* The spacegroup is taken from ISPG whatever it is
SpacegroupAsGiven(ispg) == [name |-> "", number |-> ispg]

\* header.ISPG || 'P 1'
SpacegroupOf(ispg) ==
    IF ispg = 0 THEN [name |-> "P 1", number |-> 0] ELSE [name |-> "", number |-> ispg]

\* Tensor.convertToCanonicalAxisIndicesFastToSlow(order): the value of file
\* axis i goes to the canonical axis order[i] (axes counted from 0)
NormalizeOrder(order, xs) ==
    [j \in 1..3 |-> xs[CHOOSE i \in 1..3 : order[i] = j - 1]]

\* Tensor.invertAxisOrder(v)
InvertAxisOrder(v) == [i \in 1..3 |-> v[3 - i + 1]]

\* The start fields are used as soon as originX is zero
OriginXIsZero(h) == h.originX = 0

\* header.originX === 0.0 && header.originY === 0.0 && header.originZ === 0.0
OriginIsZero(h) == h.originX = 0 /\ h.originY = 0 /\ h.originZ = 0

\* Float samples unless MODE is 2
Int8UnlessMode2(mode) == IF mode = 2 THEN "Float32Array" ELSE "Int8Array"

\* header.MODE === 0 ? Int8Array : Float32Array
SampleArray(mode) == IF mode = 0 THEN "Int8Array" ELSE "Float32Array"

\* The axis fields are read slow to fast
AxisOrderSlowToFast(h) == <<h.MAPS - 1, h.MAPR - 1, h.MAPC - 1>>

\* Vec3.create(header.MAPC - 1, header.MAPR - 1, header.MAPS - 1)
AxisOrderFastToSlow(h) == <<h.MAPC - 1, h.MAPR - 1, h.MAPS - 1>>

VolumeFromCcp4(h, voxelSize) ==
    LET size == <<h.xLength * voxelSize[1], h.yLength * voxelSize[2],
                  h.zLength * voxelSize[3]>>
        angles == <<DegToRad(h.alpha), DegToRad(h.beta), DegToRad(h.gamma)>>
        axis_order_fast_to_slow == AxisOrderFastToSlow(h)
        grid == <<h.NX, h.NY, h.NZ>>
        extent == NormalizeOrder(axis_order_fast_to_slow, <<h.NC, h.NR, h.NS>>)
        gridOrigin == IF OriginIsZero(h)
                      THEN NormalizeOrder(axis_order_fast_to_slow,
                                          <<h.NCSTART, h.NRSTART, h.NSSTART>>)
                      ELSE <<h.originX, h.originY, h.originZ>>
    IN  [cell |-> [spacegroup |-> SpacegroupOf(h.ISPG), size |-> size, angles |-> angles],
         axis_order_fast_to_slow |-> axis_order_fast_to_slow,
         gridOrigin |-> gridOrigin,
         origin_frac |-> [i \in 1..3 |-> Quotient(gridOrigin[i], grid[i])],
         dimensions_frac |-> [i \in 1..3 |-> Quotient(extent[i], grid[i])],
         space |-> [dimensions |-> extent,
                    axisOrderSlowToFast |-> InvertAxisOrder(axis_order_fast_to_slow),
                    array |-> SampleArray(h.MODE)]]

volumeFromCcp4 ==
    /\ volumeData = <<>>
    /\ volumeData' = <<VolumeFromCcp4(source.header, source.voxelSize)>>
    /\ UNCHANGED <<source, notCcp4>>

\* No file read.
Ccp4AtRest ==
    /\ source = [header |-> Ccp4Header(0, <<10, 10, 10>>, <<90, 90, 90>>, 0, <<1, 2, 3>>,
                                        <<4, 4, 4>>, <<1, 2, 3>>, <<0, 0, 0>>, <<0, 0, 0>>),
                 voxelSize |-> <<1, 1, 1>>]
    /\ volumeData = <<>>

Ccp4Init ==
    /\ source \in [header : Ccp4Headers, voxelSize : VoxelSizes]
    /\ volumeData = <<>>

Ccp4Next == volumeFromCcp4

-----------------------------------------------------------------------------
(* Model.trajectoryFromTopologyAndCoordinates and Model.getCenter.          *)
(* Objects are kept in heaps and named by their position there, so that two *)
(* models holding the same trajectoryInfo or property-data object hold the  *)
(* same id. createModels and IndexPairBonds are not part of the sources:    *)
(* createModels gives each model its own trajectoryInfo and property data,  *)
(* IndexPairBonds.Provider.set stores under its name in the static data.    *)

\* Most frames in the coordinates.
MaxFrames == 3

\* How many models createModels finds in the topology.
ModelCounts == {0, 1, 2}

CenterProp == "__Center__"
IndexPairBondsName == "index_pair_bonds"

\* (await createModels(topology.basic, topology.sourceData, ctx))[0]
FirstModel(count, modelNum) ==
    [id |-> 1, modelNum |-> modelNum, trajectoryInfo |-> 1,
     staticPropertyData |-> 1, dynamicPropertyData |-> 2]

\* The loop of trajectoryFromModelAndCoordinates from frame i on: every frame
\* gets { ...model } with a new id, modelNum = i and new property data.
RECURSIVE FrameLoop(_, _, _, _, _, _)
FrameLoop(i, n, model, ms, bs, tr) ==
    IF i >= n
    THEN [models |-> ms, bags |-> bs, trajectory |-> tr]
    ELSE LET m == [model EXCEPT !.id = Len(ms) + 1,
                                !.modelNum = i,
                                !.staticPropertyData = Len(bs) + 1,
                                !.dynamicPropertyData = Len(bs) + 2]
         IN  FrameLoop(i + 1, n, model, Append(ms, m), bs \o <<{}, {}>>,
                       Append(tr, Len(ms) + 1))

trajectoryFromModelAndCoordinates(model, n, ms, bs) ==
    FrameLoop(0, n, model, ms, bs, <<>>)

\* The loop of lines 225-229 from the model at position j of the trajectory on.
RECURSIVE InfoLoop(_, _, _, _, _)
InfoLoop(j, tr, ms, is, bs) ==
    IF j > Len(tr)
    THEN [infos |-> is, bags |-> bs]
    ELSE LET m == ms[tr[j]]
         IN  InfoLoop(j + 1, tr, ms,
                      [is EXCEPT ![m.trajectoryInfo] = [index |-> j - 1, size |-> Len(tr)]],
                      [bs EXCEPT ![m.staticPropertyData] = @ \cup {IndexPairBondsName}])

\* await createModels(...)
createModels ==
    /\ trajectory.pc = "start"
    /\ trajectory' = [trajectory EXCEPT !.pc = "created"]
    /\ IF topology.count = 0
       THEN UNCHANGED <<models, infos, bags>>
       ELSE /\ models' = <<FirstModel(topology.count, topology.modelNum)>>
            /\ infos' = <<[index |-> 0, size |-> topology.count]>>
            /\ bags' = <<{}, {}>>
    /\ UNCHANGED <<topology, notTraj>>

\* The rest of the task, lines 218-230.
trajectoryFromTopologyAndCoordinates ==
    /\ trajectory.pc = "created"
    /\ IF models = <<>>
       THEN /\ trajectory' = [pc |-> "threw", result |-> <<>>]
            /\ UNCHANGED <<models, infos, bags>>
       ELSE LET f == trajectoryFromModelAndCoordinates(models[1], topology.frames,
                                                       models, bags)
                g == InfoLoop(1, f.trajectory, f.models, infos, f.bags)
            IN  /\ models' = f.models
                /\ infos' = g.infos
                /\ bags' = g.bags
                /\ trajectory' = [pc |-> "done", result |-> f.trajectory]
    /\ UNCHANGED <<topology, notTraj>>

\* Model.getCenter(model): the center is kept in the dynamic property data.
getCenter(m) ==
    /\ bags' = [bags EXCEPT ![models[m].dynamicPropertyData] = @ \cup {CenterProp}]
    /\ UNCHANGED <<topology, models, infos, trajectory, notTraj>>

\* No topology read.
TrajAtRest ==
    /\ topology = [count |-> 0, modelNum |-> 1, frames |-> 0]
    /\ models = <<>> /\ infos = <<>> /\ bags = <<>>
    /\ trajectory = [pc |-> "start", result |-> <<>>]

TrajInit ==
    /\ topology \in [count : ModelCounts, modelNum : {1, 2}, frames : 0..MaxFrames]
    /\ models = <<>> /\ infos = <<>> /\ bags = <<>>
    /\ trajectory = [pc |-> "start", result |-> <<>>]

TrajNext ==
    \/ createModels
    \/ trajectoryFromTopologyAndCoordinates
    \/ \E m \in DOMAIN models : getCenter(m)

-----------------------------------------------------------------------------
(* The 2d volume texture: getVolumeTexture2dLayout, createVolumeTexture2d.  *)
(* All numbers of the two functions are whole and small, so Math.floor and  *)
(* Math.ceil of a quotient are the integer quotients below.                 *)

\* Largest component of a grid dimension, and largest maxTextureSize.
MaxDim == 4
MaxTextureSize == 8

\* Grid dimensions with components >= 1 and texture sizes >= dim[0]
\* (dim[0] is dim[1] here, tuples count from 1).
TexInputs ==
    {in \in [dim : (1..MaxDim) \X (1..MaxDim) \X (1..MaxDim),
             maxTextureSize : 1..MaxTextureSize] :
        in.maxTextureSize >= in.dim[1]}

\* Math.floor(a / b) and Math.ceil(a / b) for a >= 0, b > 0
Floor(a, b) == a \div b
Ceil(a, b) == (a + b - 1) \div b

GetVolumeTexture2dLayout(dim, maxTextureSize) ==
    LET split == maxTextureSize < dim[1] * dim[3]
        columns == IF split THEN Floor(maxTextureSize, dim[1]) ELSE dim[1]
        rows == IF split THEN Ceil(dim[3], columns) ELSE 1
        width == IF split THEN columns * dim[1] ELSE dim[1] * dim[3]
        height == IF split THEN dim[2] * rows ELSE dim[2]
    IN  [width |-> width + columns, height |-> height + rows,
         columns |-> columns, rows |-> rows]

\* setTex(value, x, y, z): the index of the alpha byte written, index + 3
SetTexIndex(dim, width, x, y, z) ==
    LET xlp == dim[1] + 1
        ylp == dim[2] + 1
        column == Floor((z * xlp) % width, xlp)
        row == Floor(z * xlp, width)
        px == column * xlp + x
    IN  4 * ((row * ylp * width) + (y * width) + px) + 3

\* The voxels of a grid: x, y, z from 0.
Voxels(dim) == (0..(dim[1] - 1)) \X (0..(dim[2] - 1)) \X (0..(dim[3] - 1))

\* createVolumeTexture2d(volume, maxTextureSize): the length of the array and,
\* for every voxel, the index its value is written to
CreateVolumeTexture2d(dim, maxTextureSize) ==
    LET layout == GetVolumeTexture2dLayout(dim, maxTextureSize)
    IN  [length |-> layout.width * layout.height * 4,
         width |-> layout.width, height |-> layout.height,
         index |-> [v \in Voxels(dim) |->
                      SetTexIndex(dim, layout.width, v[1], v[2], v[3])]]

getVolumeTexture2dLayout ==
    /\ texLayout = <<>>
    /\ texLayout' = <<GetVolumeTexture2dLayout(texInput.dim, texInput.maxTextureSize)>>
    /\ UNCHANGED <<texInput, texImage, notTex>>

createVolumeTexture2d ==
    /\ texImage = <<>>
    /\ texImage' = <<CreateVolumeTexture2d(texInput.dim, texInput.maxTextureSize)>>
    /\ UNCHANGED <<texInput, texLayout, notTex>>

\* No texture asked for.
TexAtRest ==
    /\ texInput = [dim |-> <<1, 1, 1>>, maxTextureSize |-> 1]
    /\ texLayout = <<>>
    /\ texImage = <<>>

TexInit ==
    /\ texInput \in TexInputs
    /\ texLayout = <<>>
    /\ texImage = <<>>

TexNext ==
    \/ getVolumeTexture2dLayout
    \/ createVolumeTexture2d

-----------------------------------------------------------------------------
(* Query properties: Properties.<group>.<name> evaluated at a location l.   *)
(* What a property reads is kept as the name of the column or field read;   *)
(* what matters here is whether the evaluation throws, and with what.       *)

\* The kinds of unit a location can be in.
UnitKinds == {"Atomic", "Spheres", "Gaussians"}

IsAtomic(u) == u = "Atomic"
IsCoarse(u) == u \in {"Spheres", "Gaussians"}
IsSpheres(u) == u = "Spheres"
IsGaussians(u) == u = "Gaussians"

\* A property returned what it read.
PropValue(field) == [threw |-> FALSE, message |-> "", field |-> field]

\* lines 15-17
notAtomic ==
    [threw |-> TRUE, message |-> "Property only available for atomic models.",
     field |-> ""]

\* lines 19-22
notCoarse(kind) ==
    [threw |-> TRUE,
     message |-> IF kind # ""
                 THEN "Property only available for coarse models (" \o kind \o ")."
                 ELSE "Property only available for coarse models.",
     field |-> ""]

ConstantNames == {"true", "false", "zero"}
AtomNames ==
    {"key", "x", "y", "z", "id", "occupancy", "B_iso_or_equiv", "type_symbol",
     "label_atom_id", "auth_atom_id", "label_alt_id", "pdbx_formal_charge"}
ResidueNames ==
    {"key", "group_PDB", "label_comp_id", "auth_comp_id", "label_seq_id",
     "auth_seq_id", "pdbx_PDB_ins_code"}
ChainNames == {"key", "label_asym_id", "auth_asym_id", "label_entity_id"}
CoarseNames ==
    {"key", "modelKey", "entityKey", "x", "y", "z", "asym_id", "seq_id_begin",
     "seq_id_end", "sphere_radius", "sphere_rmsf", "gaussian_weight",
     "gaussian_covariance_matrix"}
EntityNames ==
    {"key", "id", "type", "src_method", "pdbx_description", "formula_weight",
     "pdbx_number_of_molecules", "details", "pdbx_mutation", "pdbx_fragment",
     "pdbx_ec"}
UnitNames == {"operator_name", "model_num"}

\* lines 9-13
constant(name, u) == PropValue(name)

\* lines 24-40
atom(name, u) ==
    IF name = "key" THEN PropValue("l.element")
    ELSE IF name \in {"x", "y", "z"} THEN PropValue("l.unit." \o name)
    ELSE IF ~IsAtomic(u) THEN notAtomic
    ELSE IF name = "id" THEN PropValue("l.unit.conformation.atomId")
    ELSE IF name \in {"occupancy", "B_iso_or_equiv"}
    THEN PropValue("l.unit.conformation." \o name)
    ELSE PropValue("l.unit.hierarchy.atoms." \o name)

\* lines 42-51
residue(name, u) ==
    IF ~IsAtomic(u) THEN notAtomic
    ELSE IF name = "key" THEN PropValue("l.unit.hierarchy.residueKey")
    ELSE PropValue("l.unit.hierarchy.residues." \o name)

\* lines 53-59
chain(name, u) ==
    IF ~IsAtomic(u) THEN notAtomic
    ELSE IF name = "key" THEN PropValue("l.unit.hierarchy.chainKey")
    ELSE PropValue("l.unit.hierarchy.chains." \o name)

\* lines 61-80
coarse_grained(name, u) ==
    IF name = "key" THEN atom("key", u)
    ELSE IF name \in {"x", "y", "z"} THEN atom(name, u)
    ELSE IF name \in {"sphere_radius", "sphere_rmsf"}
    THEN IF ~IsSpheres(u) THEN notCoarse("spheres")
         ELSE PropValue(IF name = "sphere_radius" THEN "l.unit.sites.radius"
                        ELSE "l.unit.sites.rmsf")
    ELSE IF name \in {"gaussian_weight", "gaussian_covariance_matrix"}
    THEN IF ~IsGaussians(u) THEN notCoarse("gaussians")
         ELSE PropValue(IF name = "gaussian_weight" THEN "l.unit.sites.weight"
                        ELSE "l.unit.sites.covariance_matrix")
    ELSE IF ~IsCoarse(u) THEN notCoarse("")
    ELSE PropValue("l.unit.sites." \o name)

\* An entity key read without a test of the unit.
eKUnguarded(u) == PropValue("l.unit.hierarchy.entityKey")

\* line 82
eK(u) == IF ~IsAtomic(u) THEN notAtomic ELSE PropValue("l.unit.hierarchy.entityKey")

\* lines 84-97: every property but key looks its column up at eK(l)
entity(name, u) ==
    IF name = "key" THEN eK(u)
    ELSE IF eK(u).threw THEN eK(u)
    ELSE PropValue("l.unit.model.entities.data." \o name)

\* lines 99-102
unit(name, u) ==
    IF name = "operator_name" THEN PropValue("l.unit.operator.name")
    ELSE PropValue("l.unit.model.modelNum")

\* lines 104-112: the groups and the names of each
PropertyNames ==
    [constant |-> ConstantNames, atom |-> AtomNames, residue |-> ResidueNames,
     chain |-> ChainNames, entity |-> EntityNames, unit |-> UnitNames,
     coarse_grained |-> CoarseNames]

Groups == DOMAIN PropertyNames

Properties(group, name, u) ==
    CASE group = "constant" -> constant(name, u)
      [] group = "atom" -> atom(name, u)
      [] group = "residue" -> residue(name, u)
      [] group = "chain" -> chain(name, u)
      [] group = "entity" -> entity(name, u)
      [] group = "unit" -> unit(name, u)
      [] group = "coarse_grained" -> coarse_grained(name, u)

NoPropCall == [group |-> "none", name |-> "none", unit |-> "none",
               result |-> PropValue("")]

\* Properties.<group>.<name>(l) for a location l in a unit of kind u
Evaluate(group, name, u) ==
    /\ propCall' = [group |-> group, name |-> name, unit |-> u,
                    result |-> Properties(group, name, u)]
    /\ UNCHANGED notProp

PropAtRest == propCall = NoPropCall

PropInit == propCall = NoPropCall

PropNext ==
    \E group \in Groups : \E name \in PropertyNames[group] : \E u \in UnitKinds :
        Evaluate(group, name, u)

-----------------------------------------------------------------------------
(* The origin predicates of a model: isFromPdbArchive, hasSecondaryStructure,*)
(* isFromXray, isFromEm, isFromNmr, hasXrayMap, hasEmMap, hasDensityMap and  *)
(* probablyHasDensityMap. A model is what the predicates read of it.         *)

\* Rows of the exptl category, and of the pdbx_database_related category.
MaxRows == 2
MaxRelated == 1

\* model.entryId
EntryIds == {"1tqn", "1TQN", "pdb_00001tqn", "0abc"}
\* exptl.method values; "" is the value of a column that is not defined
Methods == {"X-RAY DIFFRACTION", "electron microscopy", "SOLUTION NMR",
            "ELECTRON CRYSTALLOGRAPHY", ""}
\* pdbx_database_status.status_code_sf: the column is absent, or its first
\* value is REL, OBS or unknown (?)
StatusCodes == {"absent", "REL", "OBS", "?"}
\* pdbx_database_related.db_name and content_type values
DbNames == {"EMDB", "emdb", "PDB", ""}
ContentTypes == {"associated EM volume", "other EM volume"}

\* The entry ids that match /^[1-9][a-z0-9]{3,3}$/i
MatchesPdbId(id) == id \in {"1tqn", "1TQN"}
\* The entry ids that match /^pdb_[0-9]{4,4}[1-9][a-z0-9]{3,3}$/i
MatchesLongPdbId(id) == id \in {"pdb_00001tqn"}

\* v.toUpperCase() of the values above
ToUpperCase(v) ==
    CASE v = "electron microscopy" -> "ELECTRON MICROSCOPY"
      [] v = "emdb" -> "EMDB"
      [] OTHER -> v

\* v.indexOf(word) >= 0 for the upper-cased values above
Contains(v, word) ==
    CASE word = "DIFFRACTION" -> v \in {"X-RAY DIFFRACTION"}
      [] word = "MICROSCOPY" -> v \in {"ELECTRON MICROSCOPY"}
      [] word = "NMR" -> v \in {"SOLUTION NMR"}

SeqsUpTo(S, n) == UNION {[1..k -> S] : k \in 0..n}

Related == [db_name : DbNames, content_type : ContentTypes]

\* The models: a column that is not defined has the value "" in every row, and
\* a defined one has a value in every row.
Models ==
    {m \in [isMmcif : BOOLEAN, database_2 : BOOLEAN, entryId : EntryIds,
            struct_conf : BOOLEAN, struct_sheet_range : BOOLEAN,
            methodDefined : BOOLEAN, method : SeqsUpTo(Methods, MaxRows),
            status_code_sf : StatusCodes,
            dbNameDefined : BOOLEAN, related : SeqsUpTo(Related, MaxRelated)] :
        /\ \A i \in DOMAIN m.method : (m.method[i] = "") = ~m.methodDefined
        /\ \A i \in DOMAIN m.related :
              (m.related[i].db_name = "") = ~m.dbNameDefined}

\* MmcifFormat.is(model.sourceData)
MmcifFormatIs(m) == m.isMmcif

\* lines 244-254
isFromPdbArchive(m) ==
    IF ~MmcifFormatIs(m) THEN FALSE
    ELSE \/ m.database_2
         \/ MatchesPdbId(m.entryId)
         \/ MatchesLongPdbId(m.entryId)

\* lines 256-263
hasSecondaryStructure(m) ==
    IF ~MmcifFormatIs(m) THEN FALSE
    ELSE m.struct_conf \/ m.struct_sheet_range

\* The loop of isFromXray, isFromEm and isFromNmr over the exptl methods.
MethodContains(m, word) ==
    \E i \in DOMAIN m.method : Contains(ToUpperCase(m.method[i]), word)

\* lines 276-284
isFromXray(m) ==
    IF ~MmcifFormatIs(m) THEN FALSE ELSE MethodContains(m, "DIFFRACTION")

\* lines 286-294
isFromEm(m) ==
    IF ~MmcifFormatIs(m) THEN FALSE ELSE MethodContains(m, "MICROSCOPY")

\* lines 296-304
isFromNmr(m) ==
    IF ~MmcifFormatIs(m) THEN FALSE ELSE MethodContains(m, "NMR")

\* hasXrayMap without the test of the experimental method.
hasXrayMapAnyMethod(m) ==
    IF ~MmcifFormatIs(m) THEN FALSE
    ELSE m.status_code_sf # "absent" /\ m.status_code_sf = "REL"

\* lines 306-314
hasXrayMap(m) ==
    IF ~MmcifFormatIs(m) THEN FALSE
    ELSE IF ~isFromXray(m) THEN FALSE
    ELSE m.status_code_sf # "absent" /\ m.status_code_sf = "REL"

\* lines 321-331
hasEmMap(m) ==
    IF ~MmcifFormatIs(m) THEN FALSE
    ELSE \E i \in DOMAIN m.related :
            /\ ToUpperCase(m.related[i].db_name) = "EMDB"
            /\ m.related[i].content_type = "associated EM volume"

\* lines 333-336
hasDensityMap(m) ==
    IF ~MmcifFormatIs(m) THEN FALSE
    ELSE hasXrayMap(m) \/ hasEmMap(m)

\* lines 338-354
probablyHasDensityMap(m) ==
    IF ~MmcifFormatIs(m) THEN FALSE
    ELSE \/ hasDensityMap(m)
         \/ /\ isFromPdbArchive(m)
            /\ \/ ~m.methodDefined
               \/ /\ isFromXray(m)
                  /\ m.status_code_sf \in {"absent", "?"}
               \/ /\ isFromEm(m)
                  /\ ~m.dbNameDefined

\* The nine predicates asked of the model.
readOrigin ==
    /\ origin = <<>>
    /\ origin' = <<[isFromPdbArchive |-> isFromPdbArchive(originModel),
                    hasSecondaryStructure |-> hasSecondaryStructure(originModel),
                    isFromXray |-> isFromXray(originModel),
                    isFromEm |-> isFromEm(originModel),
                    isFromNmr |-> isFromNmr(originModel),
                    hasXrayMap |-> hasXrayMap(originModel),
                    hasEmMap |-> hasEmMap(originModel),
                    hasDensityMap |-> hasDensityMap(originModel),
                    probablyHasDensityMap |-> probablyHasDensityMap(originModel)]>>
    /\ UNCHANGED <<originModel, notOrigin>>

\* No model asked about.
OriginAtRest ==
    /\ originModel = [isMmcif |-> FALSE, database_2 |-> FALSE, entryId |-> "0abc",
                      struct_conf |-> FALSE, struct_sheet_range |-> FALSE,
                      methodDefined |-> TRUE, method |-> <<>>,
                      status_code_sf |-> "absent",
                      dbNameDefined |-> TRUE, related |-> <<>>]
    /\ origin = <<>>

OriginInit ==
    /\ originModel \in Models
    /\ origin = <<>>

OriginNext == readOrigin

-----------------------------------------------------------------------------
(* Specifications: one per part, the other parts at rest.                   *)

InitBehavior ==
    /\ BehaviorInit /\ SupInit /\ SymInit /\ VolInit /\ PtInit /\ VwInit
    /\ Ccp4AtRest /\ TrajAtRest /\ TexAtRest /\ PropAtRest /\ OriginAtRest

SpecBehavior == InitBehavior /\ [][BehaviorNext]_vars

InitSuper ==
    /\ BehaviorAtRest /\ SupInit /\ SymInit /\ VolInit /\ PtInit /\ VwInit
    /\ Ccp4AtRest /\ TrajAtRest /\ TexAtRest /\ PropAtRest /\ OriginAtRest

SpecSuper == InitSuper /\ [][SupNext]_vars

InitSym ==
    /\ BehaviorAtRest /\ SupInit /\ SymInit /\ VolInit /\ PtInit /\ VwInit
    /\ Ccp4AtRest /\ TrajAtRest /\ TexAtRest /\ PropAtRest /\ OriginAtRest

SpecSym == InitSym /\ [][SymNext]_vars

InitVol ==
    /\ BehaviorAtRest /\ SupInit /\ SymInit /\ VolInit /\ PtInit /\ VwInit
    /\ Ccp4AtRest /\ TrajAtRest /\ TexAtRest /\ PropAtRest /\ OriginAtRest

SpecVol == InitVol /\ [][VolNext]_vars

InitPt ==
    /\ BehaviorAtRest /\ SupInit /\ SymInit /\ VolInit /\ PtInit /\ VwInit
    /\ Ccp4AtRest /\ TrajAtRest /\ TexAtRest /\ PropAtRest /\ OriginAtRest

SpecPt == InitPt /\ [][PtNext]_vars

InitVw ==
    /\ BehaviorAtRest /\ SupInit /\ SymInit /\ VolInit /\ PtInit /\ VwInit
    /\ Ccp4AtRest /\ TrajAtRest /\ TexAtRest /\ PropAtRest /\ OriginAtRest

SpecVw == InitVw /\ [][VwNext]_vars

InitCcp4 ==
    /\ BehaviorAtRest /\ SupInit /\ SymInit /\ VolInit /\ PtInit /\ VwInit
    /\ Ccp4Init /\ TrajAtRest /\ TexAtRest /\ PropAtRest /\ OriginAtRest

SpecCcp4 == InitCcp4 /\ [][Ccp4Next]_vars

InitTraj ==
    /\ BehaviorAtRest /\ SupInit /\ SymInit /\ VolInit /\ PtInit /\ VwInit
    /\ Ccp4AtRest /\ TrajInit /\ TexAtRest /\ PropAtRest /\ OriginAtRest

SpecTraj == InitTraj /\ [][TrajNext]_vars

InitTex ==
    /\ BehaviorAtRest /\ SupInit /\ SymInit /\ VolInit /\ PtInit /\ VwInit
    /\ Ccp4AtRest /\ TrajAtRest /\ TexInit /\ PropAtRest /\ OriginAtRest

SpecTex == InitTex /\ [][TexNext]_vars

InitProp ==
    /\ BehaviorAtRest /\ SupInit /\ SymInit /\ VolInit /\ PtInit /\ VwInit
    /\ Ccp4AtRest /\ TrajAtRest /\ TexAtRest /\ PropInit /\ OriginAtRest

SpecProp == InitProp /\ [][PropNext]_vars

InitOrigin ==
    /\ BehaviorAtRest /\ SupInit /\ SymInit /\ VolInit /\ PtInit /\ VwInit
    /\ Ccp4AtRest /\ TrajAtRest /\ TexAtRest /\ PropAtRest /\ OriginInit

SpecOrigin == InitOrigin /\ [][OriginNext]_vars

-----------------------------------------------------------------------------
(* Claims about the behavior.                                               *)

\* C1 as stated: from any prior registry state, register() directly followed by
\* unregister() leaves the three registries equal to what they were before register().
C1_RegisterUnregisterRestoresAny ==
    calls = <<"register", "unregister">> => Registries = preReg

-----------------------------------------------------------------------------
(* Claims about SuperpositionControls.                                      *)

Running == {k \in Clicks : sup[k].pc = "running"}

\* C2: over every interleaving of superposeChains / superposeAtoms invocations,
\* at most one updateTree task issued by transform runs against the tree at any
\* time; a task issued by a second click waits until the first has finished.
C2_OneUpdateInFlight ==
    /\ Cardinality(Running) <= 1
    /\ \A k \in Running : treeLock = k

\* C2 witness: a second click was made while the first run's update is running;
\* its updateTree task is issued and waits.
C2_Witness ==
    \E k, h \in Clicks :
        /\ k # h
        /\ sup[k].pc = "running"
        /\ sup[h].pc = "queued"
        /\ sup[h].b.cell = sup[k].b.cell

-----------------------------------------------------------------------------
(* Claims about InitAssemblySymmetry3D and AssemblySymmetry3D.              *)

\* The property is absent or has zero entries.
EmptyProperty(v) == ~v.defined \/ v.len = 0

\* The transform (apply or update) of the task has returned or thrown.
ApplyDone == task.pc = "done" /\ task.phase = "apply"
UpdateDone == task.pc = "done" /\ task.phase = "update"

OtherCellsKept == \A r \in Refs \ {task.ref} : cell[r] = pre.cell[r]

\* C3: for each structure, once an attach has succeeded, no later step of the
\* action, of apply or of update (each of which calls attach) runs the provider's
\* computation again, and the value object that get returns stays the same one.
C3_AttachComputesOnce ==
    [][\A s \in Structures :
          provider[s].st = "Attached" =>
              /\ provider'[s].computes = provider[s].computes
              /\ ProviderGet(provider'[s]) = ProviderGet(provider[s])]_vars

\* C3 witness: an update has attached again on the structure whose property an
\* earlier apply attached, and the property was computed once.
C3_Witness ==
    /\ UpdateDone
    /\ task.attach = "ok"
    /\ task.result = "Updated"
    /\ cell[task.ref].source = task.a
    /\ provider[task.a].computes = 1

\* C4: when the attached property is undefined or has zero entries, apply
\* completes normally with StateObject.Null: it throws nothing and creates no
\* representation.
C4_ApplyEmptyReturnsNull ==
    (ApplyDone /\ task.attach = "ok" /\ EmptyProperty(ProviderGet(provider[task.a])))
        => /\ task.result = "Null"
           /\ task.outcome = "returned"
           /\ cell[task.ref] = NullObject
           /\ reprs = pre.reprs

\* C4 witness: apply has returned on a property with zero entries.
C4_Witness ==
    /\ ApplyDone
    /\ task.kind = "apply"
    /\ task.attach = "ok"
    /\ provider[task.a].value.defined
    /\ provider[task.a].value.len = 0
    /\ task.result = "Null"

\* C5 as stated: when the property resolves to zero clusters, the set of tree
\* nodes after the InitAssemblySymmetry3D action equals the set before it.
C5_InitEmptyLeavesTree ==
    (ApplyDone /\ task.kind = "init" /\ task.attach = "ok"
        /\ EmptyProperty(ProviderGet(provider[task.a])))
        => symTree = pre.symTree

\* C5 amended: when the property resolves to zero clusters, the action completes
\* and adds exactly one AssemblySymmetry3D node to the tree, which holds
\* StateObject.Null; no Representation3D object and no representation is created.
C5_InitEmptyAddsNullNode ==
    (ApplyDone /\ task.kind = "init" /\ task.attach = "ok"
        /\ EmptyProperty(ProviderGet(provider[task.a])))
        => /\ task.outcome = "returned"
           /\ task.ref \notin pre.symTree
           /\ symTree = pre.symTree \cup {task.ref}
           /\ cell[task.ref] = NullObject
           /\ OtherCellsKept
           /\ reprs = pre.reprs

\* C5 witness: the action has run on a structure whose property has zero entries.
C5_Witness ==
    /\ ApplyDone
    /\ task.kind = "init"
    /\ task.attach = "ok"
    /\ provider[task.a].value.defined
    /\ provider[task.a].value.len = 0
    /\ task.outcome = "returned"

\* C6 as stated: when attach fails inside apply or update, the transform returns
\* a null / empty output and does not propagate the throw.
C6_AttachFailureReturnsNull ==
    (task.pc = "done" /\ task.phase \in {"apply", "update"} /\ task.attach = "failed")
        => /\ task.result \in {"Null", "Recreate"}
           /\ task.outcome = "returned"

\* C7: when attach fails inside the InitAssemblySymmetry3D action, the action
\* logs exactly one error, completes without throwing and issues no tree
\* update: tree, objects and representations are as before.
C7_InitAttachFailureLogged ==
    (task.kind = "init" /\ task.phase = "init" /\ task.attach = "failed")
        => /\ task.pc = "done"
           /\ task.logs = 1
           /\ task.outcome = "returned"
           /\ \A n \in task.nested : n.step # "updateTree"
           /\ symTree = pre.symTree
           /\ cell = pre.cell
           /\ reprs = pre.reprs

\* C7 witness: the action has ended after a failed attach.
C7_Witness ==
    /\ task.kind = "init"
    /\ task.phase = "init"
    /\ task.attach = "failed"
    /\ provider[task.a].st = "Failed"
    /\ task.pc = "done"

\* C8: update returns Recreate exactly when, after attaching again, the property
\* of the parent structure is absent or empty, and then leaves b, its
\* representation and the node's params as they were; every other update that
\* completes returns Updated; no update returns Unchanged.
C8_UpdateResult ==
    UpdateDone =>
        /\ task.result \in {"Recreate", "Updated", "threw"}
        /\ (task.attach = "ok" /\ EmptyProperty(ProviderGet(provider[task.a])))
              => task.result = "Recreate"
        /\ task.result = "Recreate"
              => /\ task.attach = "ok"
                 /\ EmptyProperty(ProviderGet(provider[task.a]))
                 /\ cell = pre.cell
                 /\ reprs = pre.reprs
                 /\ nodeParams = pre.nodeParams
        /\ (task.outcome = "returned" /\ ~EmptyProperty(ProviderGet(provider[task.a])))
              => task.result = "Updated"

\* C8 witness: update has returned Recreate for a node that holds a
\* representation, the parent structure now having an empty property.
C8_Witness ==
    /\ UpdateDone
    /\ task.result = "Recreate"
    /\ cell[task.ref].kind = "Representation3D"
    /\ cell[task.ref].source # task.a

\* C9: when update returns Updated, b is the same object with the same data
\* (repr and source); only its label and description are assigned, to the kind
\* and the `type (symbol)` of the entry newParams.symmetryIndex selects.
C9_UpdatedKeepsPayload ==
    (UpdateDone /\ task.result = "Updated") =>
        LET e == SymmetryEntry(task.params)
        IN /\ cell[task.ref] =
                [pre.cell[task.ref] EXCEPT
                    !.label = e.kind,
                    !.description = e.type \o " (" \o e.symbol \o ")"]
           /\ cell[task.ref].id = pre.cell[task.ref].id
           /\ cell[task.ref].repr = pre.cell[task.ref].repr
           /\ cell[task.ref].source = pre.cell[task.ref].source
           /\ OtherCellsKept

\* C9 witness: update has returned Updated and has changed b's label.
C9_Witness ==
    /\ UpdateDone
    /\ task.result = "Updated"
    /\ cell[task.ref].label # pre.cell[task.ref].label
    /\ cell[task.ref].description # pre.cell[task.ref].description

\* C10: every nested step of the action, of apply and of update runs in the
\* context of the enclosing task, and once that task is cancelled no nested step
\* does any work on the provider, the representations or the tree.
C10_NestedInTaskContext ==
    /\ [](\A n \in task.nested : n.ctx = task.ctx)
    /\ [][(task.pc \notin {"idle", "done"} /\ task.ctx \in cancelled)
            => /\ provider' = provider
               /\ reprs' = reprs
               /\ symTree' = symTree
               /\ cell' = cell]_vars

\* C10 witness: the action was cancelled while its tree update ran apply, and
\* the createOrUpdate nested in it threw instead of building.
C10_Witness ==
    /\ task.kind = "init"
    /\ task.pc = "done"
    /\ task.ctx \in cancelled
    /\ task.result = "threw"
    /\ [step |-> "createOrUpdate", ctx |-> task.ctx] \in task.nested
    /\ [step |-> "updateTree", ctx |-> task.ctx] \in task.nested
    /\ ~reprs[task.repr].built

-----------------------------------------------------------------------------
(* RCSBAssemblySymmetry.update and the order of unregister.                 *)

LastCall == IF calls = <<>> THEN None ELSE calls[Len(calls)]

\* The provider's default auto-attach setting equals the handler's autoAttach
\* (register establishes this, update keeps it).
DefaultInSync ==
    /\ AssemblySymmetryProviderName \in DOMAIN propAutoAttach
    /\ propAutoAttach[AssemblySymmetryProviderName] = autoAttach

\* C11: update(p) returns true iff p.autoAttach differs from the handler's
\* autoAttach at the call; after the call the handler's autoAttach and the
\* provider's default auto-attach setting both equal p.autoAttach; a second
\* update with the same params returns false; and whenever the default setting
\* was in step with the handler, the returned value tells whether the handler's
\* autoAttach or the default setting changed.
C11_UpdateReturnsChanged ==
    [][(events' = <<"set default auto-attach">>) =>
        /\ updated' = (arg' # autoAttach)
        /\ autoAttach' = arg'
        /\ propAutoAttach'[AssemblySymmetryProviderName] = arg'
        /\ DefaultInSync =>
              (updated' <=> (autoAttach' # autoAttach \/ propAutoAttach' # propAutoAttach))
        /\ (LastCall = "update" /\ arg = arg') => (updated' = FALSE)]_vars

\* A second update with the same params has returned false.
C11_Witness ==
    /\ calls = <<"update", "update">>
    /\ updated = FALSE
    /\ arg = TRUE
    /\ autoAttach = TRUE
    /\ propAutoAttach[AssemblySymmetryProviderName] = TRUE

\* C12: unregister() removes the state action, the custom structure property
\* and the color theme in the reverse of the order in which register() added
\* them, that is theme first, then property, then action.
C12_UnregisterReverseOrder ==
    (LastCall = "unregister") =>
        events = <<"remove theme", "remove property", "remove action">>

-----------------------------------------------------------------------------
(* Claims about the direct volume.                                          *)

\* C13: createDirectVolume called with a context whose webgl is undefined
\* throws, and does so before any backend call: no texture is created, no
\* load is issued, and the DirectVolume geometries (an existing one passed in
\* included) are as they were before the call.
C13_NoWebglThrowsFirst ==
    (dvCall.result # "none" /\ dvCall.webgl = "undefined") =>
        /\ dvCall.result = "threw"
        /\ dvCall.ops = <<>>
        /\ gl = dvPre.gl
        /\ dvs = dvPre.dvs

\* A call without webgl was made with an existing directVolume, and threw.
C13_Witness ==
    /\ dvCall.result = "threw"
    /\ dvCall.webgl = "undefined"
    /\ dvCall.directVolume # NoDirectVolume

OpsNamed(ops, name) == {i \in DOMAIN ops : ops[i][1] = name}

\* C14: a successful createDirectVolume call issues exactly one texture.load;
\* it calls createTexture once when no directVolume is supplied and not at
\* all when one is (the geometry's texture is the one loaded); the texture
\* kind is 'volume-uint8' iff webgl.isWebGL2 and 'image-uint8' otherwise; the
\* only backend calls are createTexture and load, none reads a texture.
C14_OneLoadPerCall ==
    (dvCall.result = "ok") =>
        /\ Cardinality(OpsNamed(dvCall.ops, "load")) = 1
        /\ Cardinality(OpsNamed(dvCall.ops, "createTexture")) =
              (IF dvCall.directVolume = NoDirectVolume THEN 1 ELSE 0)
        /\ \A i \in DOMAIN dvCall.ops : dvCall.ops[i][1] \in {"createTexture", "load"}
        /\ \A i \in OpsNamed(dvCall.ops, "createTexture") :
              dvCall.ops[i][2] = (IF dvCall.webgl = "webgl2" THEN "volume-uint8"
                                  ELSE "image-uint8")
        /\ \A i \in OpsNamed(dvCall.ops, "load") :
              dvCall.ops[i][2] = (IF dvCall.webgl = "webgl2" THEN "3d" ELSE "2d")
        /\ (dvCall.directVolume # NoDirectVolume) =>
              /\ Len(gl) = Len(dvPre.gl)
              /\ dvs[dvCall.out].texture = dvPre.dvs[dvCall.directVolume].texture

\* A call reused the texture of an existing directVolume, and one created its own.
C14_Witness ==
    /\ dvCall.result = "ok"
    /\ dvCall.directVolume # NoDirectVolume
    /\ dvCall.ops = << <<"load", "3d">> >>
    /\ Len(gl) = MaxTextures

\* C15: the props DirectVolumeRepresentation.createOrUpdate hands to the
\* volume representation depend only on the props of that call and the
\* defaults: they are the defaults overridden by the props of the call.
C15_ReprStateless ==
    reprCall.called =>
        reprCall.handed = ObjectAssign(DefaultDirectVolumeProps, reprCall.props)

-----------------------------------------------------------------------------
(* Claims about the points geometry.                                        *)

\* C16: Points.updateValues marks as changed, among dPointSizeAttenuation,
\* dPointFilledCircle and uPointEdgeBleach, exactly the cells whose held value
\* differed from the corresponding prop; when the three props equal the held
\* values none of them is marked; aPosition and aGroup are neither marked nor
\* given another value; after the call each of the three cells holds its prop.
C16_UpdateValuesMarksChanged ==
    (ptCall.op = "updateValues") =>
        /\ ("dPointSizeAttenuation" \in marked) <=>
              (ptCall.pre.dPointSizeAttenuation # ptCall.props.pointSizeAttenuation)
        /\ ("dPointFilledCircle" \in marked) <=>
              (ptCall.pre.dPointFilledCircle # ptCall.props.pointFilledCircle)
        /\ ("uPointEdgeBleach" \in marked) <=>
              (ptCall.pre.uPointEdgeBleach # ptCall.props.pointEdgeBleach)
        /\ marked \cap {"aPosition", "aGroup"} = {}
        /\ values.aPosition = ptCall.pre.aPosition
        /\ values.aGroup = ptCall.pre.aGroup
        /\ values.dPointSizeAttenuation = ptCall.props.pointSizeAttenuation
        /\ values.dPointFilledCircle = ptCall.props.pointFilledCircle
        /\ values.uPointEdgeBleach = ptCall.props.pointEdgeBleach

\* An updateValues whose three props equal the held values marked none of the
\* three cells, on values that an earlier call had set away from the defaults.
C16_Witness ==
    /\ ptCall.op = "updateValues"
    /\ ptCall.pre.uPointEdgeBleach = 20
    /\ ptCall.props.pointEdgeBleach = 20
    /\ ptCall.pre.dPointSizeAttenuation = ptCall.props.pointSizeAttenuation
    /\ ptCall.pre.dPointFilledCircle = ptCall.props.pointFilledCircle
    /\ marked = {"uAlpha"}

-----------------------------------------------------------------------------
(* Claims about volumeFromCcp4.                                             *)

Parsed == volumeData # <<>>
Volume == volumeData[1]

RightAngle == [kind |-> "number", num |-> 1, den |-> 2]
Zero == [kind |-> "number", num |-> 0, den |-> 1]

\* The header of the decode scenario, the fields it leaves open being free.
ScenarioHeader(h) ==
    /\ h.MODE = 0
    /\ h.xLength = 10 /\ h.yLength = 10 /\ h.zLength = 10
    /\ h.alpha = 90 /\ h.beta = 90 /\ h.gamma = 90
    /\ h.MAPC = 1 /\ h.MAPR = 2 /\ h.MAPS = 3
    /\ h.originX = 0 /\ h.originY = 0 /\ h.originZ = 0
    /\ h.NCSTART = 0 /\ h.NRSTART = 0 /\ h.NSSTART = 0

ScenarioCell ==
    /\ Volume.cell.spacegroup.name = "P 1"
    /\ Volume.cell.angles = <<RightAngle, RightAngle, RightAngle>>
    /\ Volume.axis_order_fast_to_slow = <<0, 1, 2>>
    /\ Volume.origin_frac = <<Zero, Zero, Zero>>

\* C18 as stated: for every header of the decode scenario, whatever ISPG and
\* NX/NY/NZ are, the cell has spacegroup 'P 1', three right angles, identity
\* axis order and fractional origin (0,0,0).
C18_ScenarioAnyHeader ==
    (Parsed /\ ScenarioHeader(source.header)) => ScenarioCell

\* C18: for every header of the decode scenario with ISPG = 0 and non-zero
\* NX, NY, NZ, the cell has spacegroup 'P 1', three right angles, identity
\* axis order and fractional origin (0,0,0).
C18_ScenarioCell ==
    (/\ Parsed
     /\ ScenarioHeader(source.header)
     /\ source.header.ISPG = 0
     /\ source.header.NX # 0 /\ source.header.NY # 0 /\ source.header.NZ # 0)
        => ScenarioCell

\* The scenario header with ISPG = 0 and a grid that is not a cube was parsed.
C18_Witness ==
    /\ Parsed
    /\ ScenarioHeader(source.header)
    /\ source.header.ISPG = 0
    /\ source.header.NX = 2 /\ source.header.NZ = 8
    /\ source.voxelSize = <<2, 2, 2>>

\* C19: the grid origin is (originX, originY, originZ) whenever one of them is
\* non-zero, and (NCSTART, NRSTART, NSSTART) reordered into x,y,z by the axis
\* order only when all three are zero; the fractional origin is the grid
\* origin divided componentwise by (NX, NY, NZ).
C19_OriginPrecedence ==
    Parsed =>
        LET h == source.header
            starts == <<h.NCSTART, h.NRSTART, h.NSSTART>>
            maps == <<h.MAPC, h.MAPR, h.MAPS>>
        IN  /\ (h.originX # 0 \/ h.originY # 0 \/ h.originZ # 0) =>
                  Volume.gridOrigin = <<h.originX, h.originY, h.originZ>>
            /\ (h.originX = 0 /\ h.originY = 0 /\ h.originZ = 0) =>
                  \A i \in 1..3 : Volume.gridOrigin[maps[i]] = starts[i]
            /\ Volume.origin_frac[1] = Quotient(Volume.gridOrigin[1], h.NX)
            /\ Volume.origin_frac[2] = Quotient(Volume.gridOrigin[2], h.NY)
            /\ Volume.origin_frac[3] = Quotient(Volume.gridOrigin[3], h.NZ)

\* A header whose originX is zero and originZ is not, with non-zero start
\* fields and a permuted axis order, was parsed.
C19_Witness ==
    /\ Parsed
    /\ source.header.originX = 0 /\ source.header.originZ = 2
    /\ source.header.NCSTART = -1
    /\ source.header.MAPC = 3
    /\ Volume.gridOrigin = <<0, 0, 2>>

\* C20: the data tensor has Int8Array storage iff header.MODE is 0, and
\* Float32Array storage for every other MODE.
C20_SampleStorage ==
    Parsed =>
        /\ (Volume.space.array = "Int8Array") <=> (source.header.MODE = 0)
        /\ (source.header.MODE # 0) => (Volume.space.array = "Float32Array")

\* A header with MODE 1 was parsed into float storage.
C20_Witness ==
    /\ Parsed
    /\ source.header.MODE = 1
    /\ Volume.space.array = "Float32Array"

\* C21: the axis order is (MAPC-1, MAPR-1, MAPS-1), fast to slow and counted
\* from 0; for every permutation of {1,2,3} in MAPC, MAPR, MAPS the extent has
\* NC at index MAPC-1, NR at index MAPR-1 and NS at index MAPS-1 (indices
\* counted from 0), and the tensor space gets the same order slow to fast.
C21_AxisOrderAndExtent ==
    Parsed =>
        LET h == source.header
        IN  /\ Volume.axis_order_fast_to_slow = <<h.MAPC - 1, h.MAPR - 1, h.MAPS - 1>>
            /\ Volume.space.dimensions[h.MAPC] = h.NC
            /\ Volume.space.dimensions[h.MAPR] = h.NR
            /\ Volume.space.dimensions[h.MAPS] = h.NS
            /\ Volume.space.axisOrderSlowToFast = <<h.MAPS - 1, h.MAPR - 1, h.MAPC - 1>>

\* A header whose column axis is z and whose section axis is x was parsed.
C21_Witness ==
    /\ Parsed
    /\ source.header.MAPC = 3 /\ source.header.MAPR = 2 /\ source.header.MAPS = 1
    /\ Volume.space.dimensions = <<3, 2, 1>>

-----------------------------------------------------------------------------
(* Claims about the transforms of SuperpositionControls.                    *)

\* The nodes of a subtree tagged 'SuperpositionTransform'.
Tagged(nodes) == {j \in 1..Len(nodes) : nodes[j].tag = SuperpositionTag}

\* The tree of builder b holds, below the structure of b, one tagged node, with
\* the params of b, which is the node b updates when b is an update.
BuilderKeepsOne(r) ==
    LET nodes == r.tree[r.b.cell]
    IN  /\ Cardinality(Tagged(nodes)) = 1
        /\ \A j \in Tagged(nodes) :
              /\ nodes[j].params = r.b.params
              /\ (r.b.op = "update") => (nodes[j].ref = r.b.ref)

\* C22: after any sequence and interleaving of transform calls every
\* structure's subtree holds at most one node tagged 'SuperpositionTransform';
\* a call inserts a tagged node only when the subtree it looks at holds none
\* and otherwise updates the one there with the new matrix, and when its
\* update of the tree finishes the structure holds one tagged node, with the
\* matrix of the call.
C22_OneTaggedNode ==
    /\ [](/\ \A c \in Cells : Cardinality(Tagged(supTree[c])) <= 1
          /\ \A k \in Clicks :
                (sup[k].pc \in {"queued", "running"}) => BuilderKeepsOne(sup[k]))
    /\ [][\A k \in Clicks :
            (sup[k].pc = "running" /\ sup'[k].pc = "resume") =>
                LET nodes == supTree'[sup[k].b.cell]
                IN  /\ Cardinality(Tagged(nodes)) = 1
                    /\ \A j \in Tagged(nodes) : nodes[j].params = sup[k].b.params]_vars

\* Two calls looked at the same structure before either update ran, both built
\* an insert; the first has been committed and the second waits.
C22_Witness ==
    \E k, h \in Clicks :
        /\ k # h
        /\ sup[k].pc = "resume"
        /\ sup[h].pc = "queued" /\ sup[h].b.op = "insert"
        /\ sup[h].b.cell = EntryCell(sup[k].i)
        /\ Cardinality(Tagged(supTree[sup[h].b.cell])) = 1

\* The log of a run that has transformed the entries 1..m, one line each.
LogUpTo(m) == [j \in 1..m |-> j]

\* C23 as stated: in a run over n entries the cell of the first entry is never
\* transformed; entry i (i = 1..n-1, in increasing order) gets the matrix
\* transforms[i-1].bTransform; the update for entry i is issued only when the
\* updates of the entries before it have finished; one info line is written
\* per transformed entry, after its update: a run writes a line only when an
\* update of its own has just finished, and a finished run has written n-1.
C23_RunInOrder ==
    /\ [](\A k \in Clicks :
            LET r == sup[k]
            IN  /\ (r.pc \in {"queued", "running"}) =>
                      /\ r.b.cell = r.i + 1
                      /\ r.b.cell # 1
                      /\ r.b.params.data = <<r.kind, r.i>>
                /\ (r.pc \in {"queued", "running", "resume"}) =>
                      /\ r.i \in 1..(r.n - 1)
                      /\ r.log = LogUpTo(r.i - 1)
                /\ (r.pc = "done") => (r.i = r.n /\ r.log = LogUpTo(r.n - 1)))
    /\ [][\A k \in Clicks :
            (Len(sup'[k].log) > Len(sup[k].log)) =>
                /\ sup[k].pc = "resume"
                /\ sup'[k].log = Append(sup[k].log, sup[k].i)]_vars

-----------------------------------------------------------------------------
(* Claims about the model trajectory.                                       *)

\* C24 as stated: once trajectoryFromTopologyAndCoordinates has completed on
\* coordinates with n frames the trajectory has n models, and the i-th
\* (i = 0..n-1) has modelNum = i, trajectoryInfo.index = i,
\* trajectoryInfo.size = n, an id no other model has, and static and dynamic
\* property data objects that neither the source model nor another frame's
\* model holds.
C24_TrajectoryFrames ==
    (trajectory.pc = "done") =>
        LET tr == trajectory.result
        IN  /\ Len(tr) = topology.frames
            /\ \A j \in 1..Len(tr) :
                  LET m == models[tr[j]]
                  IN  /\ m.modelNum = j - 1
                      /\ infos[m.trajectoryInfo].index = j - 1
                      /\ infos[m.trajectoryInfo].size = Len(tr)
                      /\ \A o \in DOMAIN models :
                            (o # tr[j]) =>
                                /\ models[o].id # m.id
                                /\ {m.staticPropertyData, m.dynamicPropertyData} \cap
                                   {models[o].staticPropertyData,
                                    models[o].dynamicPropertyData} = {}

-----------------------------------------------------------------------------
(* Claims about the 2d volume texture.                                      *)

\* C25 as stated: for every grid dimension with components >= 1 and every
\* maxTextureSize >= xl, createVolumeTexture2d writes each voxel to an alpha
\* index inside the array of width*height*4 bytes, and distinct voxels to
\* distinct indices.
C25_VoxelsInsideAndApart ==
    (texImage # <<>>) =>
        LET image == texImage[1]
            voxels == Voxels(texInput.dim)
        IN  /\ \A v \in voxels : image.index[v] \in 0..(image.length - 1)
            /\ \A v, w \in voxels : (v # w) => (image.index[v] # image.index[w])

\* C26 as stated: for every grid dimension with components >= 1 and every
\* maxTextureSize >= dim[0], getVolumeTexture2dLayout returns columns >= 1 and
\* rows >= 1 with columns*rows >= dim[2], and a width, padding included, of
\* at most maxTextureSize.
C26_LayoutFits ==
    (texLayout # <<>>) =>
        LET layout == texLayout[1]
        IN  /\ layout.columns >= 1
            /\ layout.rows >= 1
            /\ layout.columns * layout.rows >= texInput.dim[3]
            /\ layout.width <= texInput.maxTextureSize

-----------------------------------------------------------------------------
(* Claims about AssemblySymmetry3D.update and its output b.                 *)

\* C27 as stated: update is all-or-nothing on its output b: for every
\* newParams, a symmetryIndex past the attached list included, either update
\* returns Updated with b's label and description those of the selected entry,
\* or the props of b's representation, b's label and b's description are as
\* they were before the call.
C27_UpdateAllOrNothing ==
    UpdateDone =>
        LET b == cell[task.ref]
            before == pre.cell[task.ref]
            e == SymmetryEntry(task.params)
        IN  \/ /\ task.result = "Updated"
               /\ b.label = e.kind
               /\ b.description = Description(e)
            \/ /\ reprs[before.repr] = pre.reprs[before.repr]
               /\ b.label = before.label
               /\ b.description = before.description

-----------------------------------------------------------------------------
(* Claims about the query properties.                                       *)

Evaluated == propCall.group # "none"

\* The properties that read no more than the element or its position.
Unguarded ==
    \/ propCall.group \in {"constant", "unit"}
    \/ propCall.group \in {"atom", "coarse_grained"}
          /\ propCall.name \in {"key", "x", "y", "z"}

\* C28: query properties are guarded by unit kind. Every atom property but
\* key, x, y, z and every residue, chain and entity property throws 'Property
\* only available for atomic models.' at a location whose unit is not atomic;
\* every coarse_grained property but key, x, y, z throws a 'Property only
\* available for coarse models' error on a unit of the wrong kind (sphere_*
\* needs a spheres unit, gaussian_* a gaussians unit); atom.key, x, y, z, the
\* unit properties and the constant properties throw on no unit kind.
C28_GuardedByUnitKind ==
    Evaluated =>
        LET r == propCall.result
            u == propCall.unit
            n == propCall.name
        IN  /\ (propCall.group \in {"atom", "residue", "chain", "entity"}
                  /\ ~Unguarded /\ u # "Atomic")
               => (r.threw /\ r.message = "Property only available for atomic models.")
            /\ (propCall.group = "coarse_grained" /\ ~Unguarded)
               => IF n \in {"sphere_radius", "sphere_rmsf"}
                  THEN (u # "Spheres") =>
                          /\ r.threw
                          /\ r.message = "Property only available for coarse models (spheres)."
                  ELSE IF n \in {"gaussian_weight", "gaussian_covariance_matrix"}
                  THEN (u # "Gaussians") =>
                          /\ r.threw
                          /\ r.message = "Property only available for coarse models (gaussians)."
                  ELSE (u = "Atomic") =>
                          /\ r.threw
                          /\ r.message = "Property only available for coarse models."
            /\ Unguarded => ~r.threw

\* C28 witness: a sphere property evaluated in a gaussians unit has thrown.
C28_Witness ==
    /\ propCall.group = "coarse_grained"
    /\ propCall.name = "sphere_radius"
    /\ propCall.unit = "Gaussians"
    /\ propCall.result.threw

\* C28 witness for the atomic guard: an entity property in a coarse unit.
C28_WitnessEntity ==
    /\ propCall.group = "entity"
    /\ propCall.name = "pdbx_description"
    /\ propCall.unit = "Spheres"
    /\ propCall.result.threw

-----------------------------------------------------------------------------
(* Claims about the origin predicates of a model.                           *)

\* C29: for every model the origin predicates are consistent: when the source
\* data is not mmCIF all nine are false; hasXrayMap implies isFromXray;
\* hasDensityMap holds iff hasXrayMap or hasEmMap holds; hasDensityMap implies
\* probablyHasDensityMap.
C29_OriginConsistent ==
    (origin # <<>>) =>
        LET o == origin[1]
        IN  /\ ~originModel.isMmcif =>
                  \A f \in DOMAIN o : ~o[f]
            /\ o.hasXrayMap => o.isFromXray
            /\ o.hasDensityMap <=> (o.hasXrayMap \/ o.hasEmMap)
            /\ o.hasDensityMap => o.probablyHasDensityMap

\* C29 witness: an mmCIF model with released structure factors whose methods
\* include a diffraction method has an x-ray map, and with it a density map.
C29_Witness ==
    /\ origin # <<>>
    /\ originModel.isMmcif
    /\ originModel.status_code_sf = "REL"
    /\ origin[1].hasXrayMap
    /\ origin[1].isFromXray
    /\ ~origin[1].hasEmMap
    /\ origin[1].hasDensityMap
    /\ origin[1].probablyHasDensityMap

-----------------------------------------------------------------------------
(* Claims about a Viewer construction that fails.                           *)

\* C30 as stated: a failed Viewer construction leaves shared state unchanged:
\* when no element with the given id exists the constructor throws, creates
\* no plugin, and the shared DefaultPluginSpec configuration holds the same
\* values as before the constructor was called.
C30_FailedViewerChangesNothing ==
    [][\A e \in ElementIds, o \in PartialViewerOptions, shared \in BOOLEAN :
          (Viewer(e, o, shared) /\ DocumentGetElementById(e) = None) =>
              /\ vwCall'.result = "threw"
              /\ viewers' = viewers
              /\ specConfig' = specConfig]_vars

====
